---- MODULE Spec2Model ----
\* Verification model of nexus-ai: the budget ledger (core/budget.py) with its
\* callers in the LLM provider (providers/llm_provider.py), the working memory
\* (memory/working_memory.py) and the knowledge graph (memory/knowledge_graph.py).
EXTENDS Integers, Sequences, FiniteSets, TLC

\* ------------------------------------------------------------------ bounds
\* Token amounts are counted in model units; the configuration values below
\* stand for budget.daily_limit_tokens etc. of the loaded configuration.
DailyLimit == 4
PerRequestMax == 2
CuriosityDailyOps == 2
CuriosityPerOpTokens == 2
\* consume_tokens is only modelled while the counter stays below this cap
TokenSlack == 2
\* the clock advances TickHours at a time, up to MaxNow hours after start
TickHours == 12
MaxNow == 48
\* how often the process may die
MaxCrashes == 1
\* the largest working-memory capacity tried, and the calls made on it
MaxSlots == 2
MaxWmOps == 5
\* the calls made on the knowledge graph, and the longest list of concepts
MaxKgOps == 4
MaxConcepts == 3

\* ------------------------------------------------------- program constants
HoursPerDay == 24
HistoryCap == 500
AttentionFull == 100
RetrieveBoost == 10
RemoveBelow == 1
ActivationFull == 100
LearningRate == 1
WeightCap == 100

MaxTokens == DailyLimit + TokenSlack
ResetHourChoices == {0, 18}
Procs == {"r1", "r2"}

Min(a, b) == IF a < b THEN a ELSE b
Max(a, b) == IF a > b THEN a ELSE b

VARIABLES
    hardStop,      \* BudgetController.hard_stop (configuration)
    resetHour,     \* BudgetController.reset_hour (configuration)
    now,           \* datetime.now(), in hours since the start of day 0
    alive,         \* the process is running
    crashes,       \* how often it has died
    ledger,        \* _tokens_used, _curiosity_ops_used, _request_count, _last_reset, len(_history)
    stateFile,     \* budget_state.json on disk
    tmpFile,       \* budget_state.tmp on disk
    last,          \* the last ledger call: its name, argument and result
    resetLog,      \* the times of the last two _reset() runs of check_and_maybe_reset
    pc,            \* LLMProvider.complete, per concurrent request: where it is
    call           \* LLMProvider.complete, per concurrent request: its locals

VARIABLES
    maxSlots,      \* WorkingMemory.max_slots
    slots,         \* WorkingMemory._slots, in the order of the OrderedDict
    wmOps,         \* the number of working-memory calls made so far
    wmLast         \* the last working-memory call: its name, its key, the keys it removed

VARIABLES
    kg,            \* KnowledgeGraph: graph (nodes, edges) and the kg_nodes, kg_edges tables
    kgOps,         \* the number of knowledge-graph calls made so far
    kgLast         \* the last knowledge-graph call: its name and argument

VARIABLES
    procedures,    \* the rows of the table procedures, in the order of their ids
    pmSeq,         \* the AUTOINCREMENT counter of the table
    pmOps,         \* the number of procedural-memory calls made so far
    pmLast         \* the last procedural-memory call: its name, arguments and result

VARIABLES
    hsLast         \* the last HybridMemory.search call: what each store did, top_k, the result

VARIABLES
    router,        \* ModelRouter: _models, primary_name, fallback_name
    environ,       \* os.environ: the names of the API keys that are set
    memory,        \* Orchestrator._memory is set
    skillLoader,   \* Orchestrator._skill_loader is set
    oPc,           \* Orchestrator.process: where the request is
    specialist,    \* the agent name _detect_specialist returned for the request
    result,        \* the AgentResult of the request's path
    answer,        \* the content of the request's final_answer event
    finals,        \* the final_answer events process has yielded for the request
    trace,         \* what the request has called so far, in order
    session,       \* SessionManager: the roles of the rows of the table sessions
    tasks,         \* the _remember tasks created and not yet run
    stored         \* what the _remember tasks have stored in the memory facade, in order

VARIABLES
    registry,      \* AgentRegistry._agents: the names of the registered agents
    max_rounds,    \* AgentConference.run: its argument max_rounds
    participants,  \* AgentConference.run: the names of the resolved agents, in team order
    cPc,           \* AgentConference.run: where the conference is
    round_num,     \* AgentConference.run: the round being run
    finished,      \* per participant of the round: what its process call did and what _run_one returned
    rounds,        \* AgentConference.run: the ConferenceRound list of the result
    total_tokens,  \* AgentConference.run: the tokens of the result
    checked,       \* the rounds in which _check_consensus was called
    contributions, \* a list of contributions handed to _check_consensus on its own
    consensus      \* what that call returned

VARIABLES
    calls,         \* the Orchestrator.process calls made: entry point, session id, position
    sessLog,       \* SessionManager._sessions: per session id the messages, each with its call
    ran,           \* the schedules whose last_run_date is today
    minuteChecked  \* ScheduleRunner._check_all has run in the minute the schedules are due in

VARIABLES
    bg             \* per background task: _running, where its _loop is, where stop() is

budgetVars == <<hardStop, resetHour, now, alive, crashes, ledger, stateFile, tmpFile, last, resetLog>>
providerVars == <<pc, call>>
wmVars == <<maxSlots, slots, wmOps, wmLast>>
kgVars == <<kg, kgOps, kgLast>>
pmVars == <<procedures, pmSeq, pmOps, pmLast>>
hsVars == <<hsLast>>
orchVars == <<router, environ, memory, skillLoader, oPc, specialist, result, answer,
              finals, trace, session, tasks, stored>>
bgVars == <<bg>>
sessVars == <<calls, sessLog, ran, minuteChecked>>
confVars == <<registry, max_rounds, participants, cPc, round_num, finished, rounds,
              total_tokens, checked, contributions, consensus>>

\* ------------------------------------------------------------ budget ledger

\* BudgetController.__init__: the counters of a fresh controller at time t
FreshLedger(t) ==
    [tokens_used |-> 0, curiosity_ops_used |-> 0, request_count |-> 0,
     last_reset |-> t, history |-> 0]

\* now.replace(hour=self.reset_hour, minute=0, second=0, microsecond=0)
ResetToday(t) == (t \div HoursPerDay) * HoursPerDay + resetHour

ShouldResetAlways(since, t) == t >= ResetToday(t)

\* BudgetController._should_reset, with datetime.now() = t
ShouldReset(since, t) ==
    \/ t >= ResetToday(t) /\ since < ResetToday(t)
    \/ t < ResetToday(t) /\ since < ResetToday(t) - HoursPerDay

\* BudgetController._reset
Reset(L, t) ==
    [tokens_used |-> 0, curiosity_ops_used |-> 0, request_count |-> 0,
     last_reset |-> t, history |-> 0]

\* the ledger as check_and_maybe_reset leaves it
CheckAndMaybeReset(L, t) == IF ShouldReset(L.last_reset, t) THEN Reset(L, t) ELSE L

RequestTokensNoLimit(L, estimated_tokens) == TRUE

\* BudgetController.request_tokens: the admission rule, on the ledger after the
\* reset check
RequestTokens(L, estimated_tokens) ==
    ~(hardStop /\ L.tokens_used + estimated_tokens > DailyLimit)

ConsumeTokensNoCount(L, tokens) ==
    [L EXCEPT !.tokens_used = @ + tokens, !.history = Min(@ + 1, HistoryCap)]

\* BudgetController.consume_tokens: no reset check, no admission check
ConsumeTokens(L, tokens) ==
    [L EXCEPT !.tokens_used = @ + tokens,
              !.request_count = @ + 1,
              !.history = Min(@ + 1, HistoryCap)]

CuriosityGrantedNoQuota(L, estimated_tokens) ==
    /\ ~(estimated_tokens > CuriosityPerOpTokens)
    /\ ~(hardStop /\ L.tokens_used + estimated_tokens > DailyLimit)

\* BudgetController.request_curiosity_op: the three denials, on the ledger
\* after the reset check
CuriosityGranted(L, estimated_tokens) ==
    /\ ~(L.curiosity_ops_used >= CuriosityDailyOps)
    /\ ~(estimated_tokens > CuriosityPerOpTokens)
    /\ ~(hardStop /\ L.tokens_used + estimated_tokens > DailyLimit)

\* tokens_remaining
TokensRemaining(L) == Max(0, DailyLimit - L.tokens_used)

\* is_exhausted
IsExhausted(L) == hardStop /\ L.tokens_used >= DailyLimit

\* ------------------------------------------------------------- persistence

NoFile == [exists |-> FALSE, text |-> <<>>]

\* datetime.isoformat: the date part and the time part
IsoFormat(t) == <<t \div HoursPerDay, t % HoursPerDay>>

\* datetime.fromisoformat
FromIsoFormat(s) == s[1] * HoursPerDay + s[2]

\* json.dumps(data) of _save_state: the four fields, in order
Dump(L) == <<L.tokens_used, L.curiosity_ops_used, L.request_count, IsoFormat(L.last_reset)>>

\* the files after a complete _save_state: tmp written, then renamed over the
\* state file
SaveState(L) == [state |-> [exists |-> TRUE, text |-> Dump(L)], tmp |-> NoFile]

SavePartialInPlace(L, n) ==
    IF n = 0 THEN [state |-> stateFile, tmp |-> tmpFile]
    ELSE IF n <= Len(Dump(L)) + 1
         THEN [state |-> [exists |-> TRUE, text |-> SubSeq(Dump(L), 1, Min(n - 1, Len(Dump(L))))],
               tmp |-> tmpFile]
         ELSE SaveState(L)

\* the files when the process dies inside _save_state of L: n = 0 before the
\* temporary file is opened, n = k + 1 after k of the fields have reached the
\* temporary file, n = Len + 2 after the rename
SavePartial(L, n) ==
    IF n = 0 THEN [state |-> stateFile, tmp |-> tmpFile]
    ELSE IF n <= Len(Dump(L)) + 1
         THEN [state |-> stateFile,
               tmp |-> [exists |-> TRUE, text |-> SubSeq(Dump(L), 1, n - 1)]]
         ELSE SaveState(L)

\* BudgetController._load_state at time t, after __init__ set the counters
LoadState(file, t) ==
    IF ~file.exists THEN FreshLedger(t)
    ELSE IF Len(file.text) < 4 THEN Reset(FreshLedger(t), t)   \* json.JSONDecodeError
    ELSE IF ShouldReset(FromIsoFormat(file.text[4]), t) THEN Reset(FreshLedger(t), t)
    ELSE [tokens_used |-> file.text[1], curiosity_ops_used |-> file.text[2],
          request_count |-> file.text[3], last_reset |-> FromIsoFormat(file.text[4]),
          history |-> 0]

\* ---------------------------------------------------------------- records

NoCall == [op |-> "none", arg |-> 0, ret |-> TRUE, seq |-> 0]

\* seq alternates, so that every call changes the record
Called(op, arg, ret) == [op |-> op, arg |-> arg, ret |-> ret, seq |-> 1 - last.seq]

\* the last two reset times
Logged(log, t) == IF Len(log) < 2 THEN Append(log, t) ELSE <<log[2], t>>

NoRequest == [prompt |-> 0, mt |-> 0, depth |-> 0, seen |-> 0, consumed |-> 0]

InitBudget ==
    /\ hardStop \in BOOLEAN
    /\ resetHour \in ResetHourChoices
    /\ now = 0
    /\ alive = TRUE
    /\ crashes = 0
    /\ ledger = FreshLedger(0)
    /\ stateFile = NoFile
    /\ tmpFile = NoFile
    /\ last = NoCall
    /\ resetLog = <<>>

InitProvider ==
    /\ pc = [p \in Procs |-> "idle"]
    /\ call = [p \in Procs |-> NoRequest]

\* time passes
Tick ==
    /\ now + TickHours <= MaxNow
    /\ now' = now + TickHours
    /\ UNCHANGED <<hardStop, resetHour, alive, crashes, ledger, stateFile, tmpFile, last, resetLog>>
    /\ UNCHANGED <<providerVars, wmVars, kgVars, pmVars, hsVars, orchVars, confVars, sessVars, bgVars>>

\* the effect of the reset check every entry point but consume_tokens starts with
ResetCheckDone(chk) ==
    resetLog' = IF ShouldReset(ledger.last_reset, now) THEN Logged(resetLog, now) ELSE resetLog

\* await budget.check_and_maybe_reset()
CheckAndMaybeResetCall ==
    /\ alive
    /\ LET chk == CheckAndMaybeReset(ledger, now)
           reset == ShouldReset(ledger.last_reset, now)
       IN /\ ledger' = chk
          /\ last' = Called("check_and_maybe_reset", 0, reset)
          /\ ResetCheckDone(chk)
          /\ stateFile' = IF reset THEN SaveState(chk).state ELSE stateFile
          /\ tmpFile' = IF reset THEN SaveState(chk).tmp ELSE tmpFile
    /\ UNCHANGED <<hardStop, resetHour, now, alive, crashes>>
    /\ UNCHANGED <<providerVars, wmVars, kgVars, pmVars, hsVars, orchVars, confVars, sessVars, bgVars>>

\* await budget.request_tokens(t)
RequestTokensCall(t) ==
    /\ alive
    /\ LET chk == CheckAndMaybeReset(ledger, now)
           reset == ShouldReset(ledger.last_reset, now)
       IN /\ ledger' = chk
          /\ last' = Called("request_tokens", t, RequestTokens(chk, t))
          /\ ResetCheckDone(chk)
          /\ stateFile' = IF reset THEN SaveState(chk).state ELSE stateFile
          /\ tmpFile' = IF reset THEN SaveState(chk).tmp ELSE tmpFile
    /\ UNCHANGED <<hardStop, resetHour, now, alive, crashes>>
    /\ UNCHANGED <<providerVars, wmVars, kgVars, pmVars, hsVars, orchVars, confVars, sessVars, bgVars>>

\* await budget.consume_tokens(t)
ConsumeTokensCall(t) ==
    /\ alive
    /\ ledger.tokens_used + t <= MaxTokens
    /\ ledger' = ConsumeTokens(ledger, t)
    /\ last' = Called("consume_tokens", t, TRUE)
    /\ stateFile' = SaveState(ledger').state
    /\ tmpFile' = SaveState(ledger').tmp
    /\ UNCHANGED <<hardStop, resetHour, now, alive, crashes, resetLog>>
    /\ UNCHANGED <<providerVars, wmVars, kgVars, pmVars, hsVars, orchVars, confVars, sessVars, bgVars>>

\* await budget.request_curiosity_op(e)
RequestCuriosityOpCall(e) ==
    /\ alive
    /\ LET chk == CheckAndMaybeReset(ledger, now)
           reset == ShouldReset(ledger.last_reset, now)
           granted == CuriosityGranted(chk, e)
       IN /\ ledger' = IF granted THEN [chk EXCEPT !.curiosity_ops_used = @ + 1] ELSE chk
          /\ last' = Called("request_curiosity_op", e, granted)
          /\ ResetCheckDone(chk)
          /\ stateFile' = IF reset \/ granted THEN SaveState(ledger').state ELSE stateFile
          /\ tmpFile' = IF reset \/ granted THEN SaveState(ledger').tmp ELSE tmpFile
    /\ UNCHANGED <<hardStop, resetHour, now, alive, crashes>>
    /\ UNCHANGED <<providerVars, wmVars, kgVars, pmVars, hsVars, orchVars, confVars, sessVars, bgVars>>

NextLedger ==
    \/ Tick
    \/ CheckAndMaybeResetCall
    \/ \E t \in 0..(DailyLimit + 1) : RequestTokensCall(t)
    \/ \E t \in 1..(PerRequestMax + 1) : ConsumeTokensCall(t)
    \/ \E e \in 1..(CuriosityPerOpTokens + 1) : RequestCuriosityOpCall(e)


\* --------------------------------------------------- LLMProvider.complete

\* the state file and the temporary file after a handler that saved L, or saved nothing
Saved(didSave, L) ==
    /\ stateFile' = IF didSave THEN SaveState(L).state ELSE stateFile
    /\ tmpFile' = IF didSave THEN SaveState(L).tmp ELSE tmpFile

\* complete(prompt, max_tokens): tokens_est = _count_tokens(prompt), mt =
\* min(max_tokens or spec.max_tokens, per_request_max); request_tokens(tokens_est + mt),
\* BudgetExhausted when refused, else the provider call is awaited
CompleteStart(p, prompt, mt) ==
    /\ alive
    /\ pc[p] # "awaiting"
    /\ LET chk == CheckAndMaybeReset(ledger, now)
           allowed == RequestTokens(chk, prompt + mt)
       IN /\ ledger' = chk
          /\ ResetCheckDone(chk)
          /\ Saved(ShouldReset(ledger.last_reset, now), chk)
          /\ pc' = [pc EXCEPT ![p] = IF allowed THEN "awaiting" ELSE "refused"]
          /\ call' = [call EXCEPT ![p] = IF allowed
                                         THEN [prompt |-> prompt, mt |-> mt, depth |-> 0,
                                               seen |-> chk.tokens_used, consumed |-> 0]
                                         ELSE NoRequest]
    /\ UNCHANGED <<hardStop, resetHour, now, alive, crashes, last>>
    /\ UNCHANGED <<wmVars, kgVars, pmVars, hsVars, orchVars, confVars, sessVars, bgVars>>

\* the provider answers with c tokens of content: consume_tokens(tokens_est +
\* _count_tokens(content)), return content
CompleteReturn(p, c) ==
    /\ alive
    /\ pc[p] = "awaiting"
    /\ c <= call[p].mt
    /\ ledger.tokens_used + call[p].prompt + c <= MaxTokens
    /\ ledger' = ConsumeTokens(ledger, call[p].prompt + c)
    /\ Saved(TRUE, ledger')
    /\ pc' = [pc EXCEPT ![p] = "done"]
    /\ call' = [call EXCEPT ![p] = [NoRequest EXCEPT !.seen = call[p].seen,
                                                     !.consumed = call[p].prompt + c]]
    /\ UNCHANGED <<hardStop, resetHour, now, alive, crashes, last, resetLog>>
    /\ UNCHANGED <<wmVars, kgVars, pmVars, hsVars, orchVars, confVars, sessVars, bgVars>>

\* the provider call raises: one retry with the fallback model when _depth < 1
\* and the fallback is another model whose key is set (fallbackOk), which asks
\* for admission again; otherwise the error is raised
CompleteFail(p, fallbackOk, mt) ==
    /\ alive
    /\ pc[p] = "awaiting"
    /\ IF call[p].depth < 1 /\ fallbackOk
       THEN LET chk == CheckAndMaybeReset(ledger, now)
                allowed == RequestTokens(chk, call[p].prompt + mt)
            IN /\ ledger' = chk
               /\ ResetCheckDone(chk)
               /\ Saved(ShouldReset(ledger.last_reset, now), chk)
               /\ pc' = [pc EXCEPT ![p] = IF allowed THEN "awaiting" ELSE "refused"]
               /\ call' = [call EXCEPT ![p] = IF allowed
                                              THEN [prompt |-> call[p].prompt, mt |-> mt,
                                                    depth |-> call[p].depth + 1,
                                                    seen |-> chk.tokens_used, consumed |-> 0]
                                              ELSE NoRequest]
       ELSE /\ pc' = [pc EXCEPT ![p] = "failed"]
            /\ call' = [call EXCEPT ![p] = NoRequest]
            /\ UNCHANGED <<ledger, resetLog, stateFile, tmpFile>>
    /\ UNCHANGED <<hardStop, resetHour, now, alive, crashes, last>>
    /\ UNCHANGED <<wmVars, kgVars, pmVars, hsVars, orchVars, confVars, sessVars, bgVars>>

NextProvider ==
    \/ \E p \in Procs, prompt \in 1..PerRequestMax, mt \in 1..PerRequestMax :
           CompleteStart(p, prompt, mt)
    \/ \E p \in Procs, c \in 1..PerRequestMax : CompleteReturn(p, c)
    \/ \E p \in Procs, fallbackOk \in BOOLEAN, mt \in 1..PerRequestMax :
           CompleteFail(p, fallbackOk, mt)
    \/ \E e \in 1..CuriosityPerOpTokens : RequestCuriosityOpCall(e)


\* ------------------------------------------------------- crash and restart

\* the ledgers a handler running now would hand to _save_state
PendingSaves ==
    {ConsumeTokens(ledger, t) : t \in {u \in 1..(PerRequestMax + 1) : ledger.tokens_used + u <= MaxTokens}}
    \cup {CheckAndMaybeReset(ledger, now) : x \in {y \in {1} : ShouldReset(ledger.last_reset, now)}}
    \cup {[CheckAndMaybeReset(ledger, now) EXCEPT !.curiosity_ops_used = @ + 1] :
             e \in {f \in 1..CuriosityPerOpTokens : CuriosityGranted(CheckAndMaybeReset(ledger, now), f)}}

\* the process dies at point n of the _save_state of a handler
Crash(L, n) ==
    /\ alive
    /\ crashes < MaxCrashes
    /\ crashes' = crashes + 1
    /\ alive' = FALSE
    /\ stateFile' = SavePartial(L, n).state
    /\ tmpFile' = SavePartial(L, n).tmp
    /\ last' = Called("crash", n, TRUE)
    /\ ledger' = FreshLedger(0)      \* the process's memory is gone
    /\ resetLog' = <<>>
    /\ UNCHANGED <<hardStop, resetHour, now>>
    /\ UNCHANGED <<providerVars, wmVars, kgVars, pmVars, hsVars, orchVars, confVars, sessVars, bgVars>>

\* the process starts again: BudgetController.__init__ and _load_state
Restart ==
    /\ ~alive
    /\ alive' = TRUE
    /\ ledger' = LoadState(stateFile, now)
    /\ last' = Called("restart", 0, TRUE)
    /\ UNCHANGED <<hardStop, resetHour, now, crashes, stateFile, tmpFile, resetLog>>
    /\ UNCHANGED <<providerVars, wmVars, kgVars, pmVars, hsVars, orchVars, confVars, sessVars, bgVars>>

NextCrash ==
    \/ Tick
    \/ \E t \in 1..PerRequestMax : ConsumeTokensCall(t)
    \/ \E e \in 1..CuriosityPerOpTokens : RequestCuriosityOpCall(e)
    \/ \E L \in PendingSaves, n \in 0..6 : Crash(L, n)
    \/ Restart


\* ---------------------------------------------------------- working memory
\* Attention weights are counted in hundredths. created_at, last_accessed and
\* access_count are written but never read by any operation and are left out.

Keys == {"a", "b", "c"}
Contents == {"x", "y"}
Attentions == {50, 100}
DecayRates == {10, 50, 100}

RemoveAt(S, i) == SubSeq(S, 1, i - 1) \o SubSeq(S, i + 1, Len(S))

SlotKeys(S) == {S[i].key : i \in 1..Len(S)}

\* the position of key in the OrderedDict
IndexOf(S, key) == CHOOSE i \in 1..Len(S) : S[i].key = key

EvictFirst(S) == IF S = <<>> THEN S ELSE Tail(S)

\* WorkingMemory._evict_lowest: min() takes the first slot of minimal weight
EvictLowest(S) ==
    IF S = <<>> THEN S
    ELSE LET i == CHOOSE j \in 1..Len(S) :
                     /\ \A k \in 1..Len(S) : S[j].attention_weight <= S[k].attention_weight
                     /\ \A k \in 1..(j - 1) : S[k].attention_weight > S[j].attention_weight
         IN RemoveAt(S, i)

WmStoreNoEvict(S, key, content, attention) ==
    IF key \in SlotKeys(S)
    THEN Append(RemoveAt(S, IndexOf(S, key)),
                [key |-> key, content |-> content, attention_weight |-> attention])
    ELSE Append(S, [key |-> key, content |-> content, attention_weight |-> attention])

\* WorkingMemory.store
WmStore(S, key, content, attention) ==
    IF key \in SlotKeys(S)
    THEN Append(RemoveAt(S, IndexOf(S, key)),
                [key |-> key, content |-> content, attention_weight |-> attention])
    ELSE Append(IF Len(S) >= maxSlots THEN EvictLowest(S) ELSE S,
                [key |-> key, content |-> content, attention_weight |-> attention])

\* WorkingMemory.retrieve: the slots afterwards
WmRetrieve(S, key) ==
    IF key \notin SlotKeys(S) THEN S
    ELSE LET slot == S[IndexOf(S, key)]
         IN Append(RemoveAt(S, IndexOf(S, key)),
                   [slot EXCEPT !.attention_weight = Min(AttentionFull, @ + RetrieveBoost)])

\* attention_weight *= (1.0 - rate), rate in hundredths
Decayed(w, rate) == (w * (AttentionFull - rate)) \div AttentionFull

\* WorkingMemory.decay_all
WmDecayAll(S, rate) ==
    LET D == [i \in 1..Len(S) |-> [S[i] EXCEPT !.attention_weight = Decayed(@, rate)]]
    IN SelectSeq(D, LAMBDA slot : ~(slot.attention_weight < RemoveBelow))

\* dropped: the keys the call removed
WmCalled(op, key, dropped) ==
    [op |-> op, key |-> key, dropped |-> dropped, seq |-> 1 - wmLast.seq]

InitWM ==
    /\ maxSlots \in 1..MaxSlots
    /\ slots = <<>>
    /\ wmOps = 0
    /\ wmLast = [op |-> "none", key |-> "", dropped |-> {}, seq |-> 0]

store(key, content, attention) ==
    /\ wmOps < MaxWmOps
    /\ wmOps' = wmOps + 1
    /\ slots' = WmStore(slots, key, content, attention)
    /\ wmLast' = WmCalled("store", key, SlotKeys(slots) \ SlotKeys(slots'))
    /\ UNCHANGED <<maxSlots, budgetVars, providerVars, kgVars, pmVars, hsVars, orchVars, confVars, sessVars, bgVars>>

retrieve(key) ==
    /\ wmOps < MaxWmOps
    /\ wmOps' = wmOps + 1
    /\ slots' = WmRetrieve(slots, key)
    /\ wmLast' = WmCalled("retrieve", key, SlotKeys(slots) \ SlotKeys(slots'))
    /\ UNCHANGED <<maxSlots, budgetVars, providerVars, kgVars, pmVars, hsVars, orchVars, confVars, sessVars, bgVars>>

decay_all(rate) ==
    /\ wmOps < MaxWmOps
    /\ wmOps' = wmOps + 1
    /\ slots' = WmDecayAll(slots, rate)
    /\ wmLast' = WmCalled("decay_all", "", SlotKeys(slots) \ SlotKeys(slots'))
    /\ UNCHANGED <<maxSlots, budgetVars, providerVars, kgVars, pmVars, hsVars, orchVars, confVars, sessVars, bgVars>>

clear ==
    /\ wmOps < MaxWmOps
    /\ wmOps' = wmOps + 1
    /\ slots' = <<>>
    /\ wmLast' = WmCalled("clear", "", SlotKeys(slots))
    /\ UNCHANGED <<maxSlots, budgetVars, providerVars, kgVars, pmVars, hsVars, orchVars, confVars, sessVars, bgVars>>

NextWM ==
    \/ \E key \in Keys, content \in Contents, attention \in Attentions : store(key, content, attention)
    \/ \E key \in Keys : retrieve(key)
    \/ \E rate \in DecayRates : decay_all(rate)
    \/ clear

\* --------------------------------------------------------- knowledge graph
\* Edge weights are counted in tenths, activations in hundredths. Of a node's
\* attributes only the activation is kept; NoAttr marks a node that add_edge
\* created without attributes.

KgIds == {"a", "b"}
KgRelations == {"related_to"}
KgWeights == {10, 99, 105}
DefaultWeight == 10
NoAttr == -1

EmptyFn == [x \in {} |-> 0]

\* the edge row (source, target, relation) of kg_edges
EdgeRow(source, target, relation, weight, count) ==
    [source |-> source, target |-> target, relation |-> relation,
     weight |-> weight, co_activation_count |-> count]

\* the successors of the nodes, each list in the order the edges were first
\* added in, once nodes n and m are known
SuccWith(S, n, m) ==
    [x \in (DOMAIN S) \cup {n, m} |-> IF x \in DOMAIN S THEN S[x] ELSE <<>>]

\* DiGraph.add_edge: a new successor goes to the end of the list, a known one
\* keeps its place
SuccAdded(S, source, target) ==
    [SuccWith(S, source, target) EXCEPT
        ![source] = IF \E i \in 1..Len(@) : @[i] = target THEN @ ELSE Append(@, target)]

\* KnowledgeGraph.add_concept
AddConcept(G, concept_id) ==
    [G EXCEPT !.db_nodes = (concept_id :> ActivationFull) @@ @,
              !.graph_nodes = (concept_id :> ActivationFull) @@ @,
              !.succ = SuccWith(@, concept_id, concept_id)]

\* DiGraph.add_edge creates the endpoints it does not know
WithEndpoints(N, source, target) ==
    [n \in (DOMAIN N) \cup {source, target} |-> IF n \in DOMAIN N THEN N[n] ELSE NoAttr]

\* KnowledgeGraph.add_relation: INSERT OR REPLACE on the key (source, target,
\* relation), then add_edge, which overwrites the attributes of an edge it knows
AddRelation(G, source, target, relation, weight) ==
    [G EXCEPT !.db_edges = {r \in @ : ~(r.source = source /\ r.target = target
                                         /\ r.relation = relation)}
                           \cup {EdgeRow(source, target, relation, weight, 0)},
              !.graph_nodes = WithEndpoints(@, source, target),
              !.succ = SuccAdded(@, source, target),
              !.graph_edges = (<<source, target>> :>
                                  [relation |-> relation, weight |-> weight, co_activations |-> 0]) @@ @]

\* hebbian_update, the body of the inner loop for the pair (c1, c2)
HebbianPair(G, c1, c2) ==
    IF <<c1, c2>> \in DOMAIN G.graph_edges
    THEN LET data == G.graph_edges[<<c1, c2>>]
             weight == Min(WeightCap, data.weight + LearningRate)
         IN [G EXCEPT !.graph_edges[<<c1, c2>>] =
                          [data EXCEPT !.weight = weight, !.co_activations = @ + 1],
                      !.db_edges = {IF r.source = c1 /\ r.target = c2
                                    THEN [r EXCEPT !.weight = weight,
                                                   !.co_activation_count = @ + 1]
                                    ELSE r : r \in @}]
    ELSE IF c1 \in DOMAIN G.graph_nodes /\ c2 \in DOMAIN G.graph_nodes
         THEN AddRelation(G, c1, c2, "co_activated", LearningRate)
         ELSE G

\* the pairs (concepts[i], concepts[j]), i < j, in the order of the two loops
RECURSIVE PairsFrom(_, _, _)
PairsFrom(concepts, i, j) ==
    IF i > Len(concepts) THEN <<>>
    ELSE IF j > Len(concepts) THEN PairsFrom(concepts, i + 1, i + 2)
    ELSE <<(<<concepts[i], concepts[j]>>)>> \o PairsFrom(concepts, i, j + 1)

RECURSIVE HebbianFold(_, _)
HebbianFold(G, pairs) ==
    IF pairs = <<>> THEN G
    ELSE HebbianFold(HebbianPair(G, pairs[1][1], pairs[1][2]), Tail(pairs))

\* KnowledgeGraph.hebbian_update
HebbianUpdate(G, concepts) == HebbianFold(G, PairsFrom(concepts, 1, 2))

\* the lists of one to three concepts
ConceptLists ==
    UNION {[1..n -> KgIds] : n \in 1..MaxConcepts}

KgCalled(op, arg) == [op |-> op, arg |-> arg, seq |-> 1 - kgLast.seq]

InitKG ==
    /\ kg = [graph_nodes |-> EmptyFn, graph_edges |-> EmptyFn, succ |-> EmptyFn,
             db_nodes |-> EmptyFn, db_edges |-> {}]
    /\ kgOps = 0
    /\ kgLast = [op |-> "none", arg |-> <<>>, seq |-> 0]

add_concept(concept_id) ==
    /\ kgOps < MaxKgOps
    /\ kgOps' = kgOps + 1
    /\ kg' = AddConcept(kg, concept_id)
    /\ kgLast' = KgCalled("add_concept", <<concept_id>>)
    /\ UNCHANGED <<budgetVars, providerVars, wmVars, pmVars, hsVars, orchVars, confVars, sessVars, bgVars>>

add_relation(source, target, relation, weight) ==
    /\ kgOps < MaxKgOps
    /\ kgOps' = kgOps + 1
    /\ kg' = AddRelation(kg, source, target, relation, weight)
    /\ kgLast' = KgCalled("add_relation", <<source, target>>)
    /\ UNCHANGED <<budgetVars, providerVars, wmVars, pmVars, hsVars, orchVars, confVars, sessVars, bgVars>>

hebbian_update(concepts) ==
    /\ kgOps < MaxKgOps
    /\ kgOps' = kgOps + 1
    /\ kg' = HebbianUpdate(kg, concepts)
    /\ kgLast' = KgCalled("hebbian_update", concepts)
    /\ UNCHANGED <<budgetVars, providerVars, wmVars, pmVars, hsVars, orchVars, confVars, sessVars, bgVars>>

NextKG ==
    \/ \E concept_id \in KgIds : add_concept(concept_id)
    \/ \E source \in KgIds, target \in KgIds, relation \in KgRelations, weight \in KgWeights :
           add_relation(source, target, relation, weight)
    \/ \E concepts \in ConceptLists : hebbian_update(concepts)

\* ---------------------------------------- knowledge graph: contradictions

ContraRelations == {"is", "is_not"}

\* KnowledgeGraph.find_contradictions: the triples (node, n1, n2) with n1 before
\* n2 among the successors of node; the list is kept as the set of its entries
FindContradictions(G) ==
    {<<node, G.succ[node][i], G.succ[node][j]>> :
        <<node, i, j>> \in
            {x \in (DOMAIN G.succ) \X (1..Cardinality(KgIds)) \X (1..Cardinality(KgIds)) :
                /\ x[2] < x[3]
                /\ x[3] <= Len(G.succ[x[1]])
                /\ G.graph_edges[<<x[1], G.succ[x[1]][x[2]]>>].relation = "is"
                /\ G.graph_edges[<<x[1], G.succ[x[1]][x[3]]>>].relation = "is_not"}}

find_contradictions ==
    /\ kgLast' = [op |-> "find_contradictions", arg |-> <<>>, seq |-> 1 - kgLast.seq,
                  found |-> FindContradictions(kg)]
    /\ UNCHANGED <<kg, kgOps>>
    /\ UNCHANGED <<budgetVars, providerVars, wmVars, pmVars, hsVars, orchVars, confVars, sessVars, bgVars>>

\* relations are added and the curiosity engine looks for contradictions
NextContra ==
    \/ \E source \in KgIds, target \in KgIds, relation \in ContraRelations :
           add_relation(source, target, relation, DefaultWeight)
    \/ find_contradictions

\* ----------------------------------------------- knowledge graph: decay
\* Decay rates are counted in hundredths, like the activations.

KgDecayRates == {50, 100}
KgDefaultDecayRate == 1
KgRemoveBelow == 1
\* the calls that build the graph before it is left to decay
MaxKgSetup == 2

\* data.get("activation", 1.0)
ActivationOf(attr) == IF attr = NoAttr THEN ActivationFull ELSE attr

\* data["activation"] = data.get("activation", 1.0) * (1.0 - r)
KgDecayed(attr, r) == (ActivationOf(attr) * (ActivationFull - r)) \div ActivationFull

\* decay: r = rate or config.get("memory.semantic_decay_rate", 0.01)
KgRate(rate) == IF rate = 0 THEN KgDefaultDecayRate ELSE rate

\* decay: the nodes the first loop puts on to_remove
ToRemove(G, rate) ==
    {n \in DOMAIN G.graph_nodes : KgDecayed(G.graph_nodes[n], KgRate(rate)) < KgRemoveBelow}

\* a decay that lowers the activations and removes nothing
KgDecayKeepAll(G, rate) ==
    [G EXCEPT !.graph_nodes = [n \in DOMAIN @ |-> KgDecayed(@[n], KgRate(rate))]]

\* KnowledgeGraph.decay: remove_node drops the node with its edges, the two
\* DELETEs drop its rows; the lowered activations are not written to kg_nodes
KgDecay(G, rate) ==
    LET gone == ToRemove(G, rate)
    IN [graph_nodes |-> [n \in (DOMAIN G.graph_nodes) \ gone |->
                            KgDecayed(G.graph_nodes[n], KgRate(rate))],
        graph_edges |-> [e \in {x \in DOMAIN G.graph_edges : x[1] \notin gone /\ x[2] \notin gone}
                            |-> G.graph_edges[e]],
        succ |-> [n \in (DOMAIN G.succ) \ gone |->
                     SelectSeq(G.succ[n], LAMBDA m : m \notin gone)],
        db_nodes |-> [n \in (DOMAIN G.db_nodes) \ gone |-> G.db_nodes[n]],
        db_edges |-> {r \in G.db_edges : r.source \notin gone /\ r.target \notin gone}]

decay(rate) ==
    /\ kg' = KgDecay(kg, rate)
    /\ kgLast' = [op |-> "decay", arg |-> <<>>, seq |-> 1 - kgLast.seq,
                  removed |-> ToRemove(kg, rate),
                  cut |-> {e \in DOMAIN kg.graph_edges :
                              e[1] \in ToRemove(kg, rate) \/ e[2] \in ToRemove(kg, rate)}]
    /\ UNCHANGED kgOps
    /\ UNCHANGED <<budgetVars, providerVars, wmVars, pmVars, hsVars, orchVars, confVars, sessVars, bgVars>>

\* a graph is built with up to MaxKgSetup calls and decays, at any time and
\* as often as the consolidation loop and the curiosity engine call decay
NextDecay ==
    \/ \E concept_id \in KgIds : kgOps < MaxKgSetup /\ add_concept(concept_id)
    \/ \E source \in KgIds, target \in KgIds, relation \in KgRelations :
           kgOps < MaxKgSetup /\ add_relation(source, target, relation, DefaultWeight)
    \/ \E concepts \in [1..Cardinality(KgIds) -> KgIds] :
           kgOps < MaxKgSetup /\ hebbian_update(concepts)
    \/ \E rate \in KgDecayRates : decay(rate)

\* _load_graph: the rows of kg_edges for one pair of ends; add_edge keeps the
\* attributes of the row read last, and the SELECT states no order
RowsOf(G, e) == {r \in G.db_edges : r.source = e[1] /\ r.target = e[2]}

\* _load_graph: the graphs a reload of the two tables can build
LoadGraph(G) ==
    LET ends == {<<r.source, r.target>> : r \in G.db_edges}
        nodes == (DOMAIN G.db_nodes) \cup {e[1] : e \in ends} \cup {e[2] : e \in ends}
    IN {[graph_nodes |-> [n \in nodes |-> IF n \in DOMAIN G.db_nodes THEN G.db_nodes[n] ELSE NoAttr],
         graph_edges |-> [e \in ends |-> [relation |-> pick[e].relation,
                                          weight |-> pick[e].weight,
                                          co_activations |-> pick[e].co_activation_count]]]
        : pick \in {f \in [ends -> G.db_edges] : \A e \in ends : f[e] \in RowsOf(G, e)}}

\* -------------------------------------------------------- procedural memory
\* A query is a sequence of characters. Confidences are counted in hundredths.
\* created_at, last_used, reasoning_chain and metadata are written but never
\* read by store, lookup, mark_failure or cleanup and are left out.

MaxPmOps == 3
DefaultConfidence == 80
ConfidenceFull == 100
StoreBoost == 5
FailurePenalty == 10
LookupFloor == 50
CleanupFloor == 20

Queries ==
    {<<"a">>, <<" ", "A">>, <<"a", " ", " ", "A">>, <<"a", " ", "a">>}
Responses == {"x", "y"}
Confidences == {10, DefaultConfidence}
Null == "None"

\* str.lower, one character
Lower(c) == IF c = "A" THEN "a" ELSE c

\* str.split(): the words between runs of whitespace; word is the word being read
RECURSIVE Split(_, _)
Split(s, word) ==
    IF s = <<>> THEN (IF word = <<>> THEN <<>> ELSE <<word>>)
    ELSE IF Head(s) = " "
         THEN (IF word = <<>> THEN <<>> ELSE <<word>>) \o Split(Tail(s), <<>>)
         ELSE Split(Tail(s), Append(word, Head(s)))

\* " ".join(words)
RECURSIVE Join(_)
Join(words) ==
    IF words = <<>> THEN <<>>
    ELSE IF Len(words) = 1 THEN words[1]
    ELSE words[1] \o <<" ">> \o Join(Tail(words))

\* a normalisation that only lower-cases
LowerOnly(query) == [i \in 1..Len(query) |-> Lower(query[i])]

\* ProceduralMemory._normalize_query
NormalizeQuery(query) == Join(Split([i \in 1..Len(query) |-> Lower(query[i])], <<>>))

\* ProceduralMemory._hash_query: the digest of the normalised query; different
\* normalised queries are taken to have different digests
HashQuery(query) == <<"sha256", NormalizeQuery(query)>>

\* the ids of the rows with this hash, lowest first
RowsWithHash(P, qhash) == {i \in 1..Len(P) : P[i].query_hash = qhash}
FirstRow(P, rows) == CHOOSE i \in rows : \A j \in rows : i <= j

\* ProceduralMemory.store: the table afterwards
ProcStore(P, seq, query, response, confidence) ==
    LET existing == RowsWithHash(P, HashQuery(query))
    IN IF existing # {}
       THEN [P EXCEPT ![FirstRow(P, existing)] =
                [@ EXCEPT !.success_count = @ + 1,
                          !.confidence = Min(ConfidenceFull, @ + StoreBoost)]]
       ELSE Append(P, [id |-> seq + 1, query_hash |-> HashQuery(query),
                       query_normalized |-> NormalizeQuery(query),
                       response |-> response, success_count |-> 1, fail_count |-> 0,
                       confidence |-> confidence])

\* ProceduralMemory.lookup: the rows the SELECT matches
LookupRows(P, query) ==
    {i \in RowsWithHash(P, HashQuery(query)) : P[i].confidence >= LookupFloor}

\* ProceduralMemory.lookup: the value returned
ProcLookup(P, query) ==
    IF LookupRows(P, query) # {} THEN P[FirstRow(P, LookupRows(P, query))].response ELSE Null

\* ProceduralMemory.mark_failure
MarkFailure(P, query) ==
    [i \in 1..Len(P) |->
        IF P[i].query_hash = HashQuery(query)
        THEN [P[i] EXCEPT !.fail_count = @ + 1, !.confidence = Max(0, @ - FailurePenalty)]
        ELSE P[i]]

\* ProceduralMemory.cleanup
Cleanup(P, min_confidence) == SelectSeq(P, LAMBDA row : ~(row.confidence < min_confidence))

PmCalled(op, query, response, confidence, ret) ==
    [op |-> op, query |-> query, response |-> response, confidence |-> confidence,
     ret |-> ret, seq |-> 1 - pmLast.seq]

InitPM ==
    /\ procedures = <<>>
    /\ pmSeq = 0
    /\ pmOps = 0
    /\ pmLast = [op |-> "none", query |-> <<>>, response |-> Null, confidence |-> 0,
                 ret |-> Null, seq |-> 0]

procedural_store(query, response, confidence) ==
    /\ pmOps < MaxPmOps
    /\ pmOps' = pmOps + 1
    /\ procedures' = ProcStore(procedures, pmSeq, query, response, confidence)
    /\ pmSeq' = IF RowsWithHash(procedures, HashQuery(query)) # {} THEN pmSeq ELSE pmSeq + 1
    /\ pmLast' = PmCalled("store", query, response, confidence,
                          procedures'[FirstRow(procedures', RowsWithHash(procedures', HashQuery(query)))].id)
    /\ UNCHANGED <<budgetVars, providerVars, wmVars, kgVars, hsVars, orchVars, confVars, sessVars, bgVars>>

procedural_lookup(query) ==
    /\ pmOps < MaxPmOps
    /\ pmOps' = pmOps + 1
    /\ procedures' =
          IF LookupRows(procedures, query) # {}
          THEN [procedures EXCEPT ![FirstRow(procedures, LookupRows(procedures, query))].success_count = @ + 1]
          ELSE procedures
    /\ pmLast' = PmCalled("lookup", query, Null, 0, ProcLookup(procedures, query))
    /\ UNCHANGED pmSeq
    /\ UNCHANGED <<budgetVars, providerVars, wmVars, kgVars, hsVars, orchVars, confVars, sessVars, bgVars>>

mark_failure(query) ==
    /\ pmOps < MaxPmOps
    /\ pmOps' = pmOps + 1
    /\ procedures' = MarkFailure(procedures, query)
    /\ pmLast' = PmCalled("mark_failure", query, Null, 0, Null)
    /\ UNCHANGED pmSeq
    /\ UNCHANGED <<budgetVars, providerVars, wmVars, kgVars, hsVars, orchVars, confVars, sessVars, bgVars>>

cleanup(min_confidence) ==
    /\ pmOps < MaxPmOps
    /\ pmOps' = pmOps + 1
    /\ procedures' = Cleanup(procedures, min_confidence)
    /\ pmLast' = PmCalled("cleanup", <<>>, Null, min_confidence,
                          Len(procedures) - Len(procedures'))
    /\ UNCHANGED pmSeq
    /\ UNCHANGED <<budgetVars, providerVars, wmVars, kgVars, hsVars, orchVars, confVars, sessVars, bgVars>>

NextPM ==
    \/ \E query \in Queries, response \in Responses, confidence \in Confidences :
           procedural_store(query, response, confidence)
    \/ \E query \in Queries : procedural_lookup(query)
    \/ \E query \in Queries : mark_failure(query)
    \/ cleanup(CleanupFloor)

\* ------------------------------------------------------------ hybrid search
\* A result is [content, score, timestamp]: the content a pair of its first
\* 100 characters and the rest, the score in hundredths, the timestamp given
\* as the age of the item in hours, Epoch standing for timestamp 0. What a
\* store does when searched is [ok, items]: ok = FALSE when the call raises.

MaxTopK == 2
HalfLifeHours == 24
ScoreWeight == 6
FreshnessWeight == 3
ScoreFull == 100
Epoch == 1000000

ItemA == [content |-> <<"p", "1">>, score |-> 90, timestamp |-> 0]
ItemB == [content |-> <<"p", "2">>, score |-> 50, timestamp |-> HalfLifeHours]
ItemC == [content |-> <<"q", "1">>, score |-> 70, timestamp |-> Epoch]

Raises == [ok |-> FALSE, items |-> <<>>]
Returns(items) == [ok |-> TRUE, items |-> items]

\* what each store may do when searched
WorkingOutcomes == {Returns(<<>>), Returns(<<ItemC>>)}
EpisodicOutcomes == {Raises, Returns(<<>>), Returns(<<ItemA>>), Returns(<<ItemA, ItemB>>)}
FtsOutcomes == {Raises, Returns(<<>>), Returns(<<ItemB>>), Returns(<<ItemB, ItemC>>)}
VectorOutcomes == {Raises, Returns(<<>>), Returns(<<ItemA>>), Returns(<<ItemC, ItemB>>)}
KgOutcomes == {Raises, Returns(<<>>), Returns(<<ItemC>>)}

\* VectorStore.search: an unavailable store, or a query that raises, gives []
VectorSearch(outcome) == IF outcome.ok THEN outcome.items ELSE <<>>

\* a try block around a store that lets the exception through
NotGuarded(outcome) == outcome

\* try: ... except Exception: the results of a store that raises are left out
Guarded(outcome) == IF outcome.ok THEN outcome ELSE Returns(<<>>)

\* the result dicts appended for a store, with the timestamp the layer gives them
Appended(items, source, fixedTimestamp) ==
    [i \in 1..Len(items) |->
        [content |-> items[i].content, source |-> source, score |-> items[i].score,
         timestamp |-> IF fixedTimestamp THEN Epoch ELSE items[i].timestamp]]

\* TemporalDecay.exponential_decay, in hundredths: 1.0 for an item of now, 0.5
\* after one half-life, 0 for timestamp 0
Freshness(timestamp) ==
    IF timestamp <= 0 THEN ScoreFull
    ELSE IF timestamp = HalfLifeHours THEN ScoreFull \div 2
    ELSE 0

\* TemporalRetriever.score with access_count = 0: content_score * 0.6 + freshness * 0.3
TemporalScore(r) == ScoreWeight * r.score + FreshnessWeight * Freshness(r.timestamp)

\* results.sort(key=lambda x: -x["temporal_score"]): a stable sort
RECURSIVE InsertRanked(_, _)
InsertRanked(sorted, r) ==
    IF sorted = <<>> THEN <<r>>
    ELSE IF TemporalScore(Head(sorted)) >= TemporalScore(r)
         THEN <<Head(sorted)>> \o InsertRanked(Tail(sorted), r)
         ELSE <<r>> \o sorted

RECURSIVE RankResults(_)
RankResults(results) ==
    IF results = <<>> THEN <<>>
    ELSE InsertRanked(RankResults(SubSeq(results, 1, Len(results) - 1)), results[Len(results)])

\* r["content"][:100]
Prefix(r) == r.content[1]

\* the loop over the ranked results that keeps the first result of each prefix
RECURSIVE Unique(_, _)
Unique(results, seen) ==
    IF results = <<>> THEN <<>>
    ELSE IF Prefix(Head(results)) \in seen THEN Unique(Tail(results), seen)
    ELSE <<Head(results)>> \o Unique(Tail(results), seen \cup {Prefix(Head(results))})

\* HybridMemory.search: [raised, results]
HybridSearch(o, top_k) ==
    LET wm == o.working
        ep == Guarded(o.episodic)
        fts == Guarded(o.fts)
        vec == Guarded(Returns(VectorSearch(o.vector)))
        kgr == Guarded(o.kg)
    IN IF ~(wm.ok /\ ep.ok /\ fts.ok /\ vec.ok /\ kgr.ok)
       THEN [raised |-> TRUE, results |-> <<>>]
       ELSE [raised |-> FALSE,
             results |->
                LET all == Appended(wm.items, "working_memory", TRUE)
                           \o Appended(ep.items, "episodic", FALSE)
                           \o Appended(fts.items, "fts", FALSE)
                           \o Appended(vec.items, "vector", FALSE)
                           \o Appended(kgr.items, "knowledge_graph", TRUE)
                    unique == Unique(RankResults(all), {})
                IN SubSeq(unique, 1, Min(top_k, Len(unique)))]

InitHS == hsLast = [outcomes |-> [working |-> Returns(<<>>), episodic |-> Returns(<<>>),
                                  fts |-> Returns(<<>>), vector |-> Returns(<<>>),
                                  kg |-> Returns(<<>>)],
                    top_k |-> 0, ret |-> [raised |-> FALSE, results |-> <<>>], seq |-> 0]

\* the stores other than the working memory are searched with limit = top_k
hybrid_search(o, top_k) ==
    /\ \A layer \in {"episodic", "fts", "vector", "kg"} : Len(o[layer].items) <= top_k
    /\ hsLast' = [outcomes |-> o, top_k |-> top_k, ret |-> HybridSearch(o, top_k),
                  seq |-> 1 - hsLast.seq]
    /\ UNCHANGED <<budgetVars, providerVars, wmVars, kgVars, pmVars, orchVars, confVars, sessVars, bgVars>>

\* what the five stores do in one search
SearchOutcomes ==
    {[working |-> w, episodic |-> e, fts |-> f, vector |-> v, kg |-> k] :
        w \in WorkingOutcomes, e \in EpisodicOutcomes, f \in FtsOutcomes,
        v \in VectorOutcomes, k \in KgOutcomes}

NextHS ==
    \E o \in SearchOutcomes, top_k \in 1..MaxTopK : hybrid_search(o, top_k)

\* ------------------------------------------------------------ model router

\* three ModelSpec of providers.models: model_id as provider and name,
\* max_tokens, use_for
Flash == [model_id |-> <<"gemini", "flash">>, max_tokens |-> 1,
          use_for |-> {"general", "simple_tasks"}]
Llama == [model_id |-> <<"groq", "llama">>, max_tokens |-> 2, use_for |-> {"complex_reasoning"}]
Pro == [model_id |-> <<"gemini", "pro">>, max_tokens |-> 2, use_for |-> {"complex_reasoning"}]

\* ModelRouter._get_fallback: the last resort
LastResort == [model_id |-> <<"gemini", "gemini-2.0-flash">>, max_tokens |-> 2,
               use_for |-> {"general"}]

\* ModelRouter.__init__ on three configurations: a fallback that needs an API
\* key, one that needs none, and a fallback name that names no model
Routers ==
    { [models |-> <<[name |-> "flash", spec |-> Flash], [name |-> "llama", spec |-> Llama]>>,
       primary_name |-> "flash", fallback_name |-> "llama"],
      [models |-> <<[name |-> "flash", spec |-> Flash], [name |-> "pro", spec |-> Pro]>>,
       primary_name |-> "flash", fallback_name |-> "pro"],
      [models |-> <<[name |-> "flash", spec |-> Flash]>>,
       primary_name |-> "flash", fallback_name |-> "pro"] }

\* self._models.get(name, default)
ModelsGet(R, name, default) ==
    IF \E i \in 1..Len(R.models) : R.models[i].name = name
    THEN R.models[CHOOSE i \in 1..Len(R.models) : R.models[i].name = name].spec
    ELSE default

\* ModelRouter.get_primary
GetPrimary(R) == ModelsGet(R, R.primary_name, LastResort)

\* ModelRouter.get_fallback
GetFallback(R) == ModelsGet(R, R.fallback_name, GetPrimary(R))

\* ModelRouter.route: the first model, in the order of the dict, that lists the
\* task type, else the primary
Route(R, task_type) ==
    LET handles == {i \in 1..Len(R.models) : task_type \in R.models[i].spec.use_for}
    IN IF handles # {}
       THEN R.models[CHOOSE i \in handles : \A j \in handles : i <= j].spec
       ELSE GetPrimary(R)

\* ------------------------------------------------------------- LLMProvider

\* the API key a fallback model needs: GROQ_API_KEY, OPENAI_API_KEY or none
FallbackKeyEnv(model_id) ==
    IF model_id[1] = "groq" THEN "GROQ_API_KEY"
    ELSE IF model_id[1] = "openai" THEN "OPENAI_API_KEY"
    ELSE ""

KeyNotChecked(spec) == FALSE

\* fallback_key_env and not os.environ.get(fallback_key_env)
KeyMissing(spec) ==
    FallbackKeyEnv(spec.model_id) # "" /\ FallbackKeyEnv(spec.model_id) \notin environ

\* what a call of the provider has done: the ledger it leaves, the model of
\* every provider call it made, in order, and the exception it raised
Outcome(L, attempts, raised) == [ledger |-> L, attempts |-> attempts, raised |-> raised]

\* the tokens consume_tokens is given for an answered call: tokens_est +
\* _count_tokens(content), content of one token
TotalTokens(tokens_est) == tokens_est + 1

\* LLMProvider.complete(prompt, model_spec = spec, _depth) on ledger L, with
\* tokens_est = _count_tokens(prompt), when the provider calls of the models
\* failing raise
RECURSIVE Complete(_, _, _, _, _)
Complete(L, spec, tokens_est, _depth, failing) ==
    LET chk == CheckAndMaybeReset(L, now)
        mt == Min(spec.max_tokens, PerRequestMax)
    IN IF ~RequestTokens(chk, tokens_est + mt)
       THEN Outcome(chk, <<>>, "BudgetExhausted")
       ELSE IF spec.model_id \notin failing
            THEN Outcome(ConsumeTokens(chk, TotalTokens(tokens_est)), <<spec.model_id>>, "none")
            ELSE IF _depth < 1 /\ spec.model_id # GetFallback(router).model_id
                 THEN IF KeyMissing(GetFallback(router))
                      THEN Outcome(chk, <<spec.model_id>>, "RuntimeError")
                      ELSE LET retry == Complete(chk, GetFallback(router), tokens_est,
                                                 _depth + 1, failing)
                           IN Outcome(retry.ledger, <<spec.model_id>> \o retry.attempts,
                                      retry.raised)
                 ELSE Outcome(chk, <<spec.model_id>>, "Exception")

\* LLMProvider.complete_chat(messages, model_spec = spec): as complete, without
\* the _depth parameter
RECURSIVE CompleteChat(_, _, _, _)
CompleteChat(L, spec, tokens_est, failing) ==
    LET chk == CheckAndMaybeReset(L, now)
        mt == Min(spec.max_tokens, PerRequestMax)
    IN IF ~RequestTokens(chk, tokens_est + mt)
       THEN Outcome(chk, <<>>, "BudgetExhausted")
       ELSE IF spec.model_id \notin failing
            THEN Outcome(ConsumeTokens(chk, TotalTokens(tokens_est)), <<spec.model_id>>, "none")
            ELSE IF spec.model_id # GetFallback(router).model_id
                 THEN IF KeyMissing(GetFallback(router))
                      THEN Outcome(chk, <<spec.model_id>>, "RuntimeError")
                      ELSE LET retry == CompleteChat(chk, GetFallback(router), tokens_est,
                                                     failing)
                           IN Outcome(retry.ledger, <<spec.model_id>> \o retry.attempts,
                                      retry.raised)
                 ELSE Outcome(chk, <<spec.model_id>>, "Exception")

\* LLMProvider.simple_call
SimpleCall(L, tokens_est, failing) ==
    Complete(L, Route(router, "simple_tasks"), tokens_est, 0, failing)


\* ---------------------------------------------------------------- verifier

ConfidenceThreshold == 70
ParseFailedConfidence == 50
MissingConfidence == 50

\* answers of the critique call, as tokens: the code fence, the language tag,
\* the end of a line, JSON texts and other text
Fence == "fence"     \* three backquotes
Newline == "\n"
Critiques ==
    { <<"{confidence: 0.3, suggestion: fix}">>,
      <<"{confidence: 0.9, suggestion: fix}">>,
      <<"{confidence: 0.3, suggestion: }">>,
      <<"{suggestion: fix}">>,
      <<"{confidence: high, suggestion: fix}">>,
      <<"[0.3, fix]">>,
      <<"not json at all">>,
      <<Fence, "json", Newline, "{confidence: 0.3, suggestion: fix}", Newline, Fence>>,
      <<Fence, "{confidence: 0.3, suggestion: fix}", Fence>> }

\* str.strip
RECURSIVE LStrip(_)
LStrip(text) == IF text # <<>> /\ Head(text) = Newline THEN LStrip(Tail(text)) ELSE text

RECURSIVE RStrip(_)
RStrip(text) ==
    IF text # <<>> /\ text[Len(text)] = Newline THEN RStrip(SubSeq(text, 1, Len(text) - 1))
    ELSE text

Strip(text) == LStrip(RStrip(text))

\* text.split("\n", 1)[-1]
AfterFirstNewline(text) ==
    LET at == {i \in 1..Len(text) : text[i] = Newline}
    IN IF at = {} THEN text
       ELSE SubSeq(text, (CHOOSE i \in at : \A j \in at : i <= j) + 1, Len(text))

\* text.rsplit(fence, 1)[0]
BeforeLastFence(text) ==
    LET at == {i \in 1..Len(text) : text[i] = Fence}
    IN IF at = {} THEN text
       ELSE SubSeq(text, 1, (CHOOSE i \in at : \A j \in at : i >= j) - 1)

\* response.strip(), and the markdown wrapping taken off
Unwrapped(response) ==
    IF Strip(response) # <<>> /\ Head(Strip(response)) = Fence
    THEN BeforeLastFence(AfterFirstNewline(Strip(response)))
    ELSE Strip(response)

JsonError == [kind |-> "error", has_confidence |-> FALSE, is_number |-> FALSE,
              confidence |-> 0, suggestion |-> ""]

JsonDict(has_confidence, is_number, confidence, suggestion) ==
    [kind |-> "dict", has_confidence |-> has_confidence, is_number |-> is_number,
     confidence |-> confidence, suggestion |-> suggestion]

\* json.loads: one JSON text with white space around it, or an error
JsonLoads(text) ==
    LET t == Strip(text)
    IN IF Len(t) # 1 THEN JsonError
       ELSE IF t[1] = "{confidence: 0.3, suggestion: fix}" THEN JsonDict(TRUE, TRUE, 30, "fix")
       ELSE IF t[1] = "{confidence: 0.9, suggestion: fix}" THEN JsonDict(TRUE, TRUE, 90, "fix")
       ELSE IF t[1] = "{confidence: 0.3, suggestion: }" THEN JsonDict(TRUE, TRUE, 30, "")
       ELSE IF t[1] = "{suggestion: fix}" THEN JsonDict(FALSE, FALSE, 0, "fix")
       ELSE IF t[1] = "{confidence: high, suggestion: fix}" THEN JsonDict(TRUE, FALSE, 0, "fix")
       ELSE IF t[1] = "[0.3, fix]" THEN [JsonError EXCEPT !.kind = "list"]
       ELSE JsonError

ParseFailedBlocks == [confidence |-> ParseFailedConfidence, suggestion |-> "retry", passed |-> FALSE]

\* the VerificationResult of the except branch
ParseFailed == [confidence |-> ParseFailedConfidence, suggestion |-> "", passed |-> TRUE]

\* Verifier.verify after the critique call: raised says that the call raised,
\* response is its answer otherwise
VerifyResponse(raised, response) ==
    LET data == JsonLoads(Unwrapped(response))
        confidence == IF data.has_confidence THEN data.confidence ELSE MissingConfidence
    IN IF raised THEN ParseFailed
       ELSE IF data.kind # "dict" THEN ParseFailed                       \* json.loads, data.get
       ELSE IF data.has_confidence /\ ~data.is_number THEN ParseFailed   \* float(...)
       ELSE [confidence |-> confidence, suggestion |-> data.suggestion,
             passed |-> confidence >= ConfidenceThreshold]


\* ------------------------------------------------------------ orchestrator

TriggersNeeded == 2
ShortMessage == 5
VerifyBelow == 60
SkillSucceeded == 90
SkillFailed == 30
ChatConfidence == 80
ProceduralAbove == 85

\* the confidence of an agent unsure and of one sure of its answer
AgentUnsure == 30
AgentSure == 90

\* the agents of SPECIALIST_TRIGGERS, in the order of the dict
AgentNames == <<"coder", "research">>

\* the final answer of a request refused for the budget
BudgetMessage == <<"the API budget of today is used up, wait for the reset at midnight">>

NoResult == [content |-> <<>>, confidence |-> 0, source_agent |-> ""]

\* an entry of the request's trace: what was called, the provider calls it
\* made, what it raised, and for the critique call what it answered
Event(ev, attempts, raised) ==
    [ev |-> ev, attempts |-> attempts, raised |-> raised, response |-> <<>>]

Did(ev) == Event(ev, <<>>, "none")

DetectAnyHit(hits, words) ==
    IF \A i \in 1..Len(AgentNames) : hits[i] = 0 THEN Null
    ELSE AgentNames[CHOOSE i \in 1..Len(AgentNames) :
                        \A j \in 1..Len(AgentNames) :
                            hits[i] > hits[j] \/ (hits[i] = hits[j] /\ i <= j)]

\* Orchestrator._detect_specialist on a text of so many words, given for each
\* agent the number of its keywords found in the text
DetectSpecialist(hits, words) ==
    LET scored == {i \in 1..Len(AgentNames) :
                      \/ hits[i] >= TriggersNeeded
                      \/ hits[i] = 1 /\ words <= ShortMessage}
        best == CHOOSE i \in scored :
                    \A j \in scored : hits[i] > hits[j] \/ (hits[i] = hits[j] /\ i <= j)
    IN IF scored = {} THEN Null ELSE AgentNames[best]

\* what a path hands back to process: the ledger it leaves, its AgentResult
\* and what it called
PathDone(L, res, called) == [ledger |-> L, result |-> res, trace |-> called]

\* Orchestrator._chat_path: the memory search, whose exceptions
\* _get_memory_context catches, then complete_chat with the model of the task
\* type general
ChatPath(L, inp) ==
    LET r == CompleteChat(L, Route(router, "general"), inp.chatTokens, inp.failing)
        searched == IF memory
                    THEN <<Event("memory.search", <<>>,
                                 IF inp.searchRaises THEN "Exception" ELSE "none")>>
                    ELSE <<>>
        called == searched \o <<Event("complete_chat", r.attempts, r.raised)>>
    IN IF r.raised = "none"
       THEN PathDone(r.ledger, [content |-> <<"chat answer">>, confidence |-> ChatConfidence,
                                source_agent |-> "chat"], called)
       ELSE PathDone(r.ledger, [content |-> <<"sorry, an error occurred", r.raised>>,
                                confidence |-> 0, source_agent |-> "error"], called)

\* agent.process: an agent that answers by itself, one that raises, or one that
\* answers with one call of llm.complete and lets its exceptions through
AgentProcess(L, inp) ==
    LET r == Complete(L, Route(router, inp.taskType), inp.agentTokens, 0, inp.failing)
        res == [content |-> <<"agent answer">>, confidence |-> inp.confidence,
                source_agent |-> "agent"]
    IN IF inp.agent = "local" THEN [ledger |-> L, raised |-> "none", result |-> res,
                                    trace |-> <<Did("agent.process")>>]
       ELSE IF inp.agent = "raises" THEN [ledger |-> L, raised |-> "Exception", result |-> NoResult,
                                          trace |-> <<Event("agent.process", <<>>, "Exception")>>]
       ELSE [ledger |-> r.ledger, raised |-> r.raised, result |-> res,
             trace |-> <<Event("agent.process", <<>>, r.raised),
                         Event("complete", r.attempts, r.raised)>>]

\* verifier.verify(user_input, result.content, llm.simple_call) and the note
Verified(L, res, inp) ==
    LET r == SimpleCall(L, inp.verifyTokens, inp.failing)
        vr == VerifyResponse(r.raised # "none", inp.critique)
        noted == IF ~vr.passed /\ vr.suggestion # ""
                 THEN [res EXCEPT !.content = @ \o <<"Note", vr.suggestion>>]
                 ELSE res
    IN PathDone(r.ledger, noted,
                <<Did("verifier.verify"),
                  [Event("simple_call", r.attempts, r.raised)
                      EXCEPT !.response = IF r.raised = "none" THEN inp.critique ELSE <<>>]>>)

VerifyNever(confidence) == FALSE

\* if result.confidence < 0.6
NeedsVerification(confidence) == confidence < VerifyBelow

\* Orchestrator._specialist_path
SpecialistPath(L, inp) ==
    LET a == AgentProcess(L, inp)
        chat == ChatPath(a.ledger, inp)
        v == Verified(a.ledger, a.result, inp)
    IN IF ~inp.registered THEN ChatPath(L, inp)
       ELSE IF a.raised # "none" THEN PathDone(chat.ledger, chat.result, a.trace \o chat.trace)
       ELSE IF NeedsVerification(a.result.confidence)
            THEN PathDone(v.ledger, v.result, a.trace \o v.trace)
            ELSE PathDone(a.ledger, a.result, a.trace)

\* the sets of models whose provider calls fail
Failings == SUBSET {GetPrimary(router).model_id, GetFallback(router).model_id}

\* the inputs of a path: the agent, the task type of its call, the confidence
\* it reports, the sizes of the prompts, the models whose calls fail, the
\* answer of the critique call
PathInput(registered, agent, taskType, confidence, agentTokens, failing, critique) ==
    [registered |-> registered, agent |-> agent, taskType |-> taskType,
     confidence |-> confidence, agentTokens |-> agentTokens, chatTokens |-> 1,
     verifyTokens |-> 1, failing |-> failing, critique |-> critique,
     searchRaises |-> FALSE]

\* the same inputs, with a memory search that returns and with one that raises
WithSearch(inputs) == inputs \cup {[p EXCEPT !.searchRaises = TRUE] : p \in inputs}

\* the direct completion: only the failing models matter
ChatInputs ==
    WithSearch({PathInput(TRUE, "local", "general", AgentSure, 1, f, <<>>) : f \in Failings})

\* the specialist: no agent of that name, an agent that raises, an agent that
\* answers by itself or with a call of the provider, sure of its answer or not
SpecialistInputs == WithSearch(
    {PathInput(FALSE, "local", "general", AgentSure, 1, f, <<>>) : f \in Failings}
    \cup {PathInput(TRUE, "raises", "general", AgentSure, 1, f, <<>>) : f \in Failings}
    \cup {PathInput(TRUE, "local", "general", AgentSure, 1, {}, <<>>)}
    \cup {PathInput(TRUE, "local", "general", AgentUnsure, 1, f, q) :
              f \in Failings, q \in Critiques}
    \cup {PathInput(TRUE, "llm", t, AgentSure, n, f, <<>>) :
              t \in {"general", "complex_reasoning"}, n \in 1..PerRequestMax, f \in Failings}
    \cup {PathInput(TRUE, "llm", t, AgentUnsure, n, f, q) :
              t \in {"general", "complex_reasoning"}, n \in 1..PerRequestMax, f \in Failings,
              q \in Critiques})

InitOrch ==
    /\ router \in Routers
    /\ environ \in {{}, {FallbackKeyEnv(GetFallback(router).model_id)} \ {""}}
    /\ memory \in BOOLEAN
    /\ skillLoader \in BOOLEAN
    /\ oPc = "idle"
    /\ specialist = Null
    /\ result = NoResult
    /\ answer = <<>>
    /\ finals = 0
    /\ trace = <<>>
    /\ session = <<>>
    /\ tasks = <<>>
    /\ stored = <<>>

\* the files and the reset log after a path that left the ledger L
LedgerLeft(L) ==
    /\ ledger' = L
    /\ resetLog' = IF ShouldReset(ledger.last_reset, now) THEN Logged(resetLog, now) ELSE resetLog
    /\ Saved(L # ledger, L)
    /\ UNCHANGED <<hardStop, resetHour, now, alive, crashes, last>>

AddMessageLost(role, raises) == session

\* session.add_message(session_id, role, content): the row inserted, unless the
\* INSERT raises
AddMessage(role, raises) == IF memory /\ ~raises THEN Append(session, role) ELSE session

\* Orchestrator.process up to the choice of the path: the budget check, the
\* user message, the skill match, the specialist match
process(skillMatch, hits, words, raises) ==
    /\ oPc = "idle"
    /\ result' = NoResult
    /\ IF IsExhausted(ledger)
       THEN /\ answer' = BudgetMessage
            /\ finals' = 1
            /\ trace' = <<Did("budget_exhausted")>>
            /\ oPc' = "done"
            /\ UNCHANGED <<specialist, session>>
       ELSE /\ answer' = <<>>
            /\ finals' = 0
            /\ session' = AddMessage("user", raises)
            /\ trace' = IF skillLoader THEN <<Did("skill_loader.match")>> ELSE <<>>
            /\ IF skillLoader /\ skillMatch
               THEN oPc' = "skill" /\ specialist' = Null
               ELSE /\ specialist' = DetectSpecialist(hits, words)
                    /\ oPc' = IF specialist' # Null THEN "specialist" ELSE "chat"
    /\ UNCHANGED <<router, environ, memory, skillLoader, tasks, stored>>
    /\ UNCHANGED <<budgetVars, providerVars, wmVars, kgVars, pmVars, hsVars, confVars, sessVars, bgVars>>

\* what skill.execute does: it returns a result of success or of failure, it
\* runs past the 30 seconds, it raises
SkillOutcomes == {"success", "failure", "timeout", "exception"}

SkillResult(content, success, raised) ==
    [content |-> content, success |-> success, raised |-> raised]

\* SkillLoader.execute without its handlers
ExecuteLetsThrough(outcome) ==
    IF outcome = "timeout" THEN SkillResult(<<>>, FALSE, "TimeoutError")
    ELSE IF outcome = "exception" THEN SkillResult(<<>>, FALSE, "Exception")
    ELSE SkillResult(<<"skill answer">>, outcome = "success", "none")

\* SkillLoader.execute: wait_for(skill.execute(...), 30 seconds); a timeout and
\* an exception become results of failure
Execute(outcome) ==
    IF outcome = "timeout" THEN SkillResult(<<"timed out">>, FALSE, "none")
    ELSE IF outcome = "exception" THEN SkillResult(<<"Skill error">>, FALSE, "none")
    ELSE SkillResult(<<"skill answer">>, outcome = "success", "none")

\* Orchestrator._skill_path, and the final answer; an exception that leaves
\* execute leaves process before the answer
skill_path(outcome) ==
    /\ oPc = "skill"
    /\ LET r == Execute(outcome)
       IN /\ trace' = Append(trace, Event("skill_loader.execute", <<>>, r.raised))
          /\ IF r.raised = "none"
             THEN /\ result' = [content |-> r.content,
                                confidence |-> IF r.success THEN SkillSucceeded
                                               ELSE SkillFailed,
                                source_agent |-> "skill"]
                  /\ answer' = result'.content
                  /\ finals' = finals + 1
                  /\ oPc' = "post"
             ELSE /\ oPc' = "raised"
                  /\ UNCHANGED <<result, answer, finals>>
    /\ UNCHANGED <<router, environ, memory, skillLoader, specialist, session, tasks, stored>>
    /\ UNCHANGED <<budgetVars, providerVars, wmVars, kgVars, pmVars, hsVars, confVars, sessVars, bgVars>>

\* Orchestrator._specialist_path, and the final answer
specialist_path(inp) ==
    /\ oPc = "specialist"
    /\ LET done == SpecialistPath(ledger, inp)
       IN /\ result' = done.result
          /\ answer' = done.result.content
          /\ finals' = finals + 1
          /\ trace' = trace \o <<Did("_specialist_path")>> \o done.trace
          /\ LedgerLeft(done.ledger)
    /\ oPc' = "post"
    /\ UNCHANGED <<router, environ, memory, skillLoader, specialist, session, tasks, stored>>
    /\ UNCHANGED <<providerVars, wmVars, kgVars, pmVars, hsVars, confVars, sessVars, bgVars>>

\* Orchestrator._chat_path, and the final answer
chat_path(inp) ==
    /\ oPc = "chat"
    /\ LET done == ChatPath(ledger, inp)
       IN /\ result' = done.result
          /\ answer' = done.result.content
          /\ finals' = finals + 1
          /\ trace' = trace \o <<Did("_chat_path")>> \o done.trace
          /\ LedgerLeft(done.ledger)
    /\ oPc' = "post"
    /\ UNCHANGED <<router, environ, memory, skillLoader, specialist, session, tasks, stored>>
    /\ UNCHANGED <<providerVars, wmVars, kgVars, pmVars, hsVars, confVars, sessVars, bgVars>>

\* Orchestrator._post_process: the answer to the session, the _remember task
post_process(raises) ==
    /\ oPc = "post"
    /\ session' = AddMessage("assistant", raises)
    /\ tasks' = IF memory THEN Append(tasks, result) ELSE tasks
    /\ trace' = IF memory
                THEN trace \o <<Event("session.add_message", <<>>,
                                      IF raises THEN "Exception" ELSE "none"),
                                Did("create_task")>>
                ELSE trace
    /\ oPc' = "done"
    /\ UNCHANGED <<router, environ, memory, skillLoader, specialist, result, answer, finals,
                   stored>>
    /\ UNCHANGED <<budgetVars, providerVars, wmVars, kgVars, pmVars, hsVars, confVars, sessVars, bgVars>>

\* Orchestrator._remember, run by the event loop: store_interaction, and
\* store_procedural above 0.85; an exception of the first skips the second
remember(raises) ==
    /\ tasks # <<>>
    /\ tasks' = Tail(tasks)
    /\ stored' = IF raises THEN stored
                 ELSE IF Head(tasks).confidence > ProceduralAbove
                      THEN stored \o <<"interaction", "procedural">>
                      ELSE Append(stored, "interaction")
    /\ UNCHANGED <<router, environ, memory, skillLoader, oPc, specialist, result, answer,
                   finals, trace, session>>
    /\ UNCHANGED <<budgetVars, providerVars, wmVars, kgVars, pmVars, hsVars, confVars, sessVars, bgVars>>

NextOrch ==
    \/ \E t \in 1..DailyLimit :
           oPc = "idle" /\ ledger.request_count = 0 /\ ConsumeTokensCall(t)
    \/ \E skillMatch \in BOOLEAN, hits \in [1..Len(AgentNames) -> 0..TriggersNeeded],
          words \in {ShortMessage, ShortMessage + 1}, raises \in BOOLEAN :
           process(skillMatch, hits, words, raises)
    \/ \E outcome \in SkillOutcomes : skill_path(outcome)
    \/ \E inp \in SpecialistInputs : specialist_path(inp)
    \/ \E inp \in ChatInputs : chat_path(inp)
    \/ \E raises \in BOOLEAN : post_process(raises)
    \/ \E raises \in BOOLEAN : remember(raises)


\* a request arriving at any time of the first day, or at the reset instant
\* that ends it: the clock moves before the request
NextDay ==
    \/ oPc = "idle" /\ now < HoursPerDay /\ Tick
    \/ NextOrch

\* ------------------------------------------------- core/agent_conference.py
\* Texts are sequences of words; a keyword is in a text when its words are a
\* run of the text. Confidences are in hundredths. The shared context only
\* feeds the prompts and the summary only formats the rounds: neither is kept.
MaxRounds == 3
MaxContributions == 3

ConsensusFrom == 1
LowConfidence == 30
ConsensusShare == 60
PlaceholderConfidence == 0
WholeShare == 100

TEAMS ==
    [tech |-> <<"coder", "reasoning", "research">>,
     analysis |-> <<"reasoning", "research", "knowledge">>]
TeamKeys == {"tech", "unknown"}
AgentPool == {"coder", "research"}

AGREE == {<<"agree">>, <<"correct">>}
DISAGREE == {<<"dis", "agree">>, <<"wrong">>}

\* the team of a key, the analysis team for an unknown key
TeamOf(team_key) == IF team_key \in DOMAIN TEAMS THEN TEAMS[team_key] ELSE TEAMS["analysis"]

\* the agents of the team the registry knows, in team order
Resolve(agent_names) == SelectSeq(agent_names, LAMBDA name : name \in registry)

\* str.lower, one word
LowerWord(w) == IF w = "Agree" THEN "agree" ELSE w
LowerText(text) == [i \in 1..Len(text) |-> LowerWord(text[i])]

\* k in text
Contains(k, text) ==
    \E i \in 1..(Len(text) - Len(k) + 1) : SubSeq(text, i, i + Len(k) - 1) = k
ContainsAny(keywords, text) == \E k \in keywords : Contains(k, text)

AgentResult(content, confidence, source_agent, tokens_used) ==
    [content |-> content, confidence |-> confidence,
     source_agent |-> source_agent, tokens_used |-> tokens_used]

\* what ag.process does within the timeout
ProcessReturns(content, confidence) ==
    [kind |-> "returns", content |-> content, confidence |-> confidence]
ProcessTimesOut == [kind |-> "timeout", content |-> <<>>, confidence |-> 0]
ProcessRaises(exc) == [kind |-> "raises", content |-> exc, confidence |-> 0]

TimeoutContent == <<"(timeout)">>
FailedContent(exc) == <<"(failed:">> \o exc \o <<")">>

RunOneKeepsConfidence(name, outcome) ==
    CASE outcome.kind = "returns" ->
            AgentResult(outcome.content, outcome.confidence, name, 1)
      [] outcome.kind = "timeout" ->
            AgentResult(TimeoutContent, ConfidenceThreshold, name, 0)
      [] OTHER ->
            AgentResult(FailedContent(outcome.content), ConfidenceThreshold, name, 0)

\* _run_one: the result of the agent, or a placeholder
RunOne(name, outcome) ==
    CASE outcome.kind = "returns" ->
            AgentResult(outcome.content, outcome.confidence, name, 1)
      [] outcome.kind = "timeout" ->
            AgentResult(TimeoutContent, PlaceholderConfidence, name, 0)
      [] OTHER ->
            AgentResult(FailedContent(outcome.content), PlaceholderConfidence, name, 0)

Contribution(agent_name, res) ==
    [agent |-> agent_name, content |-> res.content,
     confidence |-> res.confidence, tokens |-> res.tokens_used]

SkippedNever(c) == FALSE

\* a contribution the loop of _check_consensus skips
Skipped(c) == c.confidence < LowConfidence

\* the contributions the loop of _check_consensus looks at the text of
Considered(cs) == SelectSeq(cs, LAMBDA c : ~Skipped(c))

\* agree_count when the loop ends without returning
AgreeCount(cs) ==
    Cardinality({i \in 1..Len(Considered(cs)) :
                    ContainsAny(AGREE, LowerText(Considered(cs)[i].content))})

\* _check_consensus: the loop returns False at the first contribution it looks
\* at that holds a disagreement keyword
CheckConsensus(cs) ==
    IF cs = <<>> THEN FALSE
    ELSE IF \E i \in 1..Len(Considered(cs)) :
                ContainsAny(DISAGREE, LowerText(Considered(cs)[i].content))
    THEN FALSE
    ELSE AgreeCount(cs) * WholeShare >= Len(cs) * ConsensusShare

ConsensusAlways(n) == TRUE

\* the rounds after which run calls _check_consensus
ConsensusChecked(n) == n > ConsensusFrom

Pending == [kind |-> "pending"]
\* consensus holds the returned value, once there is one
NotCalled == <<>>

\* what the agents of a conference do
Outcomes ==
    {ProcessReturns(<<"I", "agree">>, SkillSucceeded),
     ProcessReturns(<<"maybe">>, SkillSucceeded),
     ProcessTimesOut, ProcessRaises(<<"boom">>)}

\* the contributions _check_consensus is called on by itself
Texts ==
    {<<"I", "Agree">>, <<"correct">>, <<"I", "dis", "agree">>, <<"wrong">>, <<"maybe">>}
Shares == {PlaceholderConfidence, LowConfidence - 1, LowConfidence, SkillSucceeded}
ContributionLists ==
    UNION {[1..n -> {Contribution("a", AgentResult(t, c, "a", 1)) : t \in Texts, c \in Shares}]
              : n \in 0..MaxContributions}

InitConf ==
    /\ registry \in SUBSET AgentPool
    /\ max_rounds = 0
    /\ participants = <<>>
    /\ cPc = "idle"
    /\ round_num = 0
    /\ finished = <<>>
    /\ rounds = <<>>
    /\ total_tokens = 0
    /\ checked = {}
    /\ contributions = <<>>
    /\ consensus = NotCalled

\* run, up to the first gather
run(team_key, mr) ==
    /\ cPc = "idle"
    /\ max_rounds' = mr
    /\ participants' = Resolve(TeamOf(team_key))
    /\ IF participants' = <<>> \/ mr = 0
       THEN /\ cPc' = "done"
            /\ UNCHANGED <<round_num, finished>>
       ELSE /\ cPc' = "gather"
            /\ round_num' = 1
            /\ finished' = [i \in 1..Len(participants') |-> Pending]
    /\ UNCHANGED <<registry, rounds, total_tokens, checked, contributions, consensus>>
    /\ UNCHANGED <<budgetVars, providerVars, wmVars, kgVars, pmVars, hsVars, orchVars, sessVars, bgVars>>

\* _run_one of participant i ends
run_one(i, outcome) ==
    /\ cPc = "gather"
    /\ i \in 1..Len(participants)
    /\ finished[i] = Pending
    /\ finished' = [finished EXCEPT ![i] =
                        [kind |-> outcome.kind, outcome |-> outcome,
                         result |-> RunOne(participants[i], outcome)]]
    /\ UNCHANGED <<registry, max_rounds, participants, cPc, round_num, rounds,
                   total_tokens, checked, contributions, consensus>>
    /\ UNCHANGED <<budgetVars, providerVars, wmVars, kgVars, pmVars, hsVars, orchVars, sessVars, bgVars>>

RECURSIVE SumTokens(_)
SumTokens(cs) == IF cs = <<>> THEN 0 ELSE Head(cs).tokens + SumTokens(Tail(cs))

\* gather returns: the rest of the round, and the start of the next one
gather ==
    /\ cPc = "gather"
    /\ \A i \in 1..Len(participants) : finished[i] # Pending
    /\ LET cs == [i \in 1..Len(participants) |->
                      Contribution(participants[i], finished[i].result)]
           consensus_reached ==
               IF ConsensusChecked(round_num) THEN CheckConsensus(cs) ELSE FALSE
       IN /\ rounds' = Append(rounds, [round_number |-> round_num, contributions |-> cs,
                                       consensus_reached |-> consensus_reached])
          /\ total_tokens' = total_tokens + SumTokens(cs)
          /\ checked' = IF ConsensusChecked(round_num) THEN checked \cup {round_num}
                        ELSE checked
          /\ IF consensus_reached \/ round_num = max_rounds
             THEN /\ cPc' = "done"
                  /\ UNCHANGED <<round_num, finished>>
             ELSE /\ round_num' = round_num + 1
                  /\ finished' = [i \in 1..Len(participants) |-> Pending]
                  /\ UNCHANGED cPc
    /\ UNCHANGED <<registry, max_rounds, participants, contributions, consensus>>
    /\ UNCHANGED <<budgetVars, providerVars, wmVars, kgVars, pmVars, hsVars, orchVars, sessVars, bgVars>>

NextConf ==
    \/ \E team_key \in TeamKeys, mr \in 0..MaxRounds : run(team_key, mr)
    \/ \E i \in 1..Cardinality(AgentPool), outcome \in Outcomes : run_one(i, outcome)
    \/ gather

\* _check_consensus called on a list of contributions
check_consensus ==
    /\ consensus = NotCalled
    /\ consensus' = <<CheckConsensus(contributions)>>
    /\ UNCHANGED <<registry, max_rounds, participants, cPc, round_num, finished, rounds,
                   total_tokens, checked, contributions>>
    /\ UNCHANGED <<budgetVars, providerVars, wmVars, kgVars, pmVars, hsVars, orchVars, sessVars, bgVars>>

NextConsensus == check_consensus

\* ------------------------------------------- concurrent calls of a session
\* The calls of Orchestrator.process made by the entry points, each cut at the
\* points where it gives up the event loop: the model call of its path, and
\* the final_answer event it hands to its consumer. SessionManager and _emit
\* do not suspend, so steps 1 to 3 of process run in one piece. What the path
\* answers, and what _remember stores, is modelled with the single request.
MaxCalls == 3

ClientSessions == {"default", "s1"}
RunnerSession == "schedule_runner"
SessionIds == ClientSessions \cup {RunnerSession}
ScheduleList == <<"morning", "evening">>
NoSchedule == "none"

NewCall(entry, session_id, sched) ==
    [entry |-> entry, session_id |-> session_id, sched |-> sched, pc |-> "created", history |-> 0]

\* a call that has started and has not written its answer back
InFlight(c) == calls[c].pc \in {"path", "yielded"}

\* process, steps 1 to 3, of call c of the calls cs: the budget check, the user
\* message added to the session, the history loaded
Begin(cs, c) ==
    IF IsExhausted(ledger)
    THEN /\ calls' = [cs EXCEPT ![c].pc = "rejected"]
         /\ UNCHANGED sessLog
    ELSE LET sid == cs[c].session_id
             log == IF memory THEN Append(sessLog[sid], [role |-> "user", call |-> c])
                    ELSE sessLog[sid]
         IN /\ sessLog' = [sessLog EXCEPT ![sid] = log]
            /\ calls' = [cs EXCEPT ![c].pc = "path", ![c].history = Len(log)]

InitCalls ==
    /\ calls = <<>>
    /\ sessLog = [sid \in SessionIds |-> <<>>]
    /\ ran = {}
    /\ minuteChecked = FALSE

\* POST /chat: MessageHub.process runs the request's call
api_chat(session_id) ==
    /\ Len(calls) < MaxCalls
    /\ Begin(Append(calls, NewCall("api", session_id, NoSchedule)), Len(calls) + 1)
    /\ UNCHANGED <<ran, minuteChecked>>
    /\ UNCHANGED <<budgetVars, providerVars, wmVars, kgVars, pmVars, hsVars, orchVars, confVars, bgVars>>

\* ws_chat: the loop of a connection takes its next message when the call of
\* the message before has ended
ws_chat(session_id) ==
    /\ Len(calls) < MaxCalls
    /\ \A c \in 1..Len(calls) : calls[c].entry = "web" => calls[c].pc = "done"
    /\ Begin(Append(calls, NewCall("web", session_id, NoSchedule)), Len(calls) + 1)
    /\ UNCHANGED <<ran, minuteChecked>>
    /\ UNCHANGED <<budgetVars, providerVars, wmVars, kgVars, pmVars, hsVars, orchVars, confVars, bgVars>>

\* ScheduleRunner._check_all in the minute the schedules of due are set to:
\* one task per schedule that has not run today
check_all(due) ==
    /\ ~minuteChecked
    /\ minuteChecked' = TRUE
    /\ LET fired == SelectSeq(ScheduleList, LAMBDA sched : sched \in due /\ sched \notin ran)
       IN /\ Len(calls) + Len(fired) <= MaxCalls
          /\ calls' = calls \o [i \in 1..Len(fired) |->
                                   NewCall("schedule", RunnerSession, fired[i])]
    /\ UNCHANGED <<sessLog, ran>>
    /\ UNCHANGED <<budgetVars, providerVars, wmVars, kgVars, pmVars, hsVars, orchVars, confVars, bgVars>>

\* ScheduleRunner._fire: the task starts
fire(c) ==
    /\ c \in 1..Len(calls)
    /\ calls[c].pc = "created"
    /\ Begin(calls, c)
    /\ UNCHANGED <<ran, minuteChecked>>
    /\ UNCHANGED <<budgetVars, providerVars, wmVars, kgVars, pmVars, hsVars, orchVars, confVars, bgVars>>

\* the path of the call returns and process yields the final_answer event
path_returns(c) ==
    /\ c \in 1..Len(calls)
    /\ calls[c].pc = "path"
    /\ calls' = [calls EXCEPT ![c].pc = "yielded"]
    /\ UNCHANGED <<sessLog, ran, minuteChecked>>
    /\ UNCHANGED <<budgetVars, providerVars, wmVars, kgVars, pmVars, hsVars, orchVars, confVars, bgVars>>

\* the consumer comes back for the next event: _post_process writes the answer
\* to the session, the call ends, and _fire marks its schedule as run
resume(c) ==
    /\ c \in 1..Len(calls)
    /\ calls[c].pc \in {"yielded", "rejected"}
    /\ calls' = [calls EXCEPT ![c].pc = "done"]
    /\ sessLog' = IF calls[c].pc = "yielded" /\ memory
                  THEN [sessLog EXCEPT ![calls[c].session_id] =
                            Append(@, [role |-> "assistant", call |-> c])]
                  ELSE sessLog
    /\ ran' = IF calls[c].entry = "schedule" THEN ran \cup {calls[c].sched} ELSE ran
    /\ UNCHANGED minuteChecked
    /\ UNCHANGED <<budgetVars, providerVars, wmVars, kgVars, pmVars, hsVars, orchVars, confVars, bgVars>>

NextCalls ==
    \/ \E session_id \in ClientSessions : api_chat(session_id)
    \/ \E session_id \in ClientSessions : ws_chat(session_id)
    \/ \E due \in SUBSET {ScheduleList[i] : i \in 1..Len(ScheduleList)} : check_all(due)
    \/ \E c \in 1..MaxCalls : fire(c)
    \/ \E c \in 1..MaxCalls : path_returns(c)
    \/ \E c \in 1..MaxCalls : resume(c)

\* ------------------------------------------------------- background tasks
\* MemoryConsolidator and CuriosityEngine: start, stop and _loop. A task gives
\* up the event loop in asyncio.sleep and, within tick, in the model call of a
\* budget operation; consolidate awaits nothing that suspends. task.cancel()
\* raises CancelledError in the task at the await it is suspended in.
MaxIterations == 2

BgTasks == {"consolidation", "curiosity"}

\* the iteration of the task has an await that suspends
Suspends(t) == t = "curiosity"

InitBg ==
    bg = [t \in BgTasks |->
             [running |-> FALSE, pc |-> "none", cancel |-> FALSE, stop |-> "idle",
              started |-> 0, completed |-> 0, after_stop |-> 0, exploration_log |-> 0]]

\* the loop after an iteration: while self._running
LoopOn(b) == [b EXCEPT !.pc = IF b.running THEN "sleeping" ELSE "ended"]

\* start()
bg_start(t) ==
    /\ bg[t].pc = "none"
    /\ bg' = [bg EXCEPT ![t].running = TRUE, ![t].pc = "sleeping"]
    /\ UNCHANGED <<budgetVars, providerVars, wmVars, kgVars, pmVars, hsVars, orchVars, confVars, sessVars>>

\* asyncio.sleep returns and the iteration runs: consolidate() as a whole, tick()
\* as a whole when it makes no model call (explores false), tick() up to its
\* model call otherwise
bg_wake(t, explores) ==
    /\ bg[t].pc = "sleeping"
    /\ ~bg[t].cancel
    /\ bg[t].started < MaxIterations
    /\ LET b == [bg[t] EXCEPT !.started = @ + 1,
                              !.after_stop = IF bg[t].stop # "idle" THEN @ + 1 ELSE @]
       IN bg' = [bg EXCEPT ![t] =
                     IF Suspends(t) /\ explores
                     THEN [b EXCEPT !.pc = "in_tick"]
                     ELSE LoopOn([b EXCEPT !.completed = @ + 1])]
    /\ UNCHANGED <<budgetVars, providerVars, wmVars, kgVars, pmVars, hsVars, orchVars, confVars, sessVars>>

\* the model call of the tick returns, the exploration is logged, the tick ends
bg_tick_ends(t) ==
    /\ bg[t].pc = "in_tick"
    /\ ~bg[t].cancel
    /\ bg' = [bg EXCEPT ![t] = LoopOn([bg[t] EXCEPT !.completed = @ + 1,
                                                    !.exploration_log = @ + 1])]
    /\ UNCHANGED <<budgetVars, providerVars, wmVars, kgVars, pmVars, hsVars, orchVars, confVars, sessVars>>

\* stop(), up to await self._task
bg_stop(t) ==
    /\ bg[t].stop = "idle"
    /\ bg[t].pc # "none"
    /\ bg' = [bg EXCEPT ![t].running = FALSE,
                        ![t].cancel = bg[t].pc # "ended",
                        ![t].stop = "awaiting"]
    /\ UNCHANGED <<budgetVars, providerVars, wmVars, kgVars, pmVars, hsVars, orchVars, confVars, sessVars>>

\* CancelledError is raised at the await the task is suspended in, passes the
\* handlers of Exception, and ends _loop at its except CancelledError: break
bg_cancelled(t) ==
    /\ bg[t].cancel
    /\ bg[t].pc \in {"sleeping", "in_tick"}
    /\ bg' = [bg EXCEPT ![t].pc = "ended", ![t].cancel = FALSE]
    /\ UNCHANGED <<budgetVars, providerVars, wmVars, kgVars, pmVars, hsVars, orchVars, confVars, sessVars>>

\* await self._task returns in stop()
bg_stop_returns(t) ==
    /\ bg[t].stop = "awaiting"
    /\ bg[t].pc = "ended"
    /\ bg' = [bg EXCEPT ![t].stop = "returned"]
    /\ UNCHANGED <<budgetVars, providerVars, wmVars, kgVars, pmVars, hsVars, orchVars, confVars, sessVars>>

NextBg ==
    \/ \E t \in BgTasks : bg_start(t)
    \/ \E t \in BgTasks, explores \in BOOLEAN : bg_wake(t, explores)
    \/ \E t \in BgTasks : bg_tick_ends(t)
    \/ \E t \in BgTasks : bg_stop(t)
    \/ \E t \in BgTasks : bg_cancelled(t)
    \/ \E t \in BgTasks : bg_stop_returns(t)

\* ---------------------------------------------------------- specifications

Init == InitBudget /\ InitProvider /\ InitWM /\ InitKG /\ InitPM /\ InitHS /\ InitOrch /\ InitConf /\ InitCalls /\ InitBg

\* a component no call is made on, in one configuration
IdleBudget == InitBudget /\ InitProvider /\ hardStop /\ resetHour = 0
IdleWM == InitWM /\ maxSlots = MaxSlots

\* the state after construction, per specification: the components it makes
\* calls on in every configuration, the others idle
IdleOrch == InitOrch /\ Len(router.models) = 1 /\ ~memory /\ ~skillLoader
IdleConf == InitConf /\ registry = {}
IdleCalls == InitCalls
InitLedger == InitBudget /\ InitProvider /\ IdleWM /\ InitKG /\ InitPM /\ InitHS /\ IdleOrch /\ IdleConf /\ IdleCalls /\ InitBg
InitMemory == IdleBudget /\ InitWM /\ InitKG /\ InitPM /\ InitHS /\ IdleOrch /\ IdleConf /\ IdleCalls /\ InitBg
InitGraph == IdleBudget /\ IdleWM /\ InitKG /\ InitPM /\ InitHS /\ IdleOrch /\ IdleConf /\ IdleCalls /\ InitBg
InitService == IdleBudget /\ IdleWM /\ InitKG /\ InitPM /\ InitHS /\ InitOrch /\ IdleConf /\ IdleCalls /\ InitBg
InitConference == IdleBudget /\ IdleWM /\ InitKG /\ InitPM /\ InitHS /\ IdleOrch /\ InitConf /\ IdleCalls /\ InitBg
InitConsensus ==
    /\ IdleBudget /\ IdleWM /\ InitKG /\ InitPM /\ InitHS /\ IdleOrch
    /\ registry = {} /\ max_rounds = 0 /\ participants = <<>> /\ cPc = "idle" /\ round_num = 0
    /\ finished = <<>> /\ rounds = <<>> /\ total_tokens = 0 /\ checked = {}
    /\ contributions \in ContributionLists /\ consensus = NotCalled
    /\ IdleCalls /\ InitBg
InitSessions ==
    /\ IdleBudget /\ IdleWM /\ InitKG /\ InitPM /\ InitHS /\ IdleConf /\ InitCalls /\ InitBg
    /\ InitOrch /\ Len(router.models) = 1 /\ memory /\ ~skillLoader
\* saving and loading do not read hard_stop
InitCrash == InitLedger /\ hardStop

vars == <<budgetVars, providerVars, wmVars, kgVars, pmVars, hsVars, orchVars, confVars, sessVars, bgVars>>

\* the ledger's entry points called in any order while time passes
Spec == InitLedger /\ [][NextLedger]_vars

\* concurrent completion requests and the curiosity engine sharing one ledger
SpecProvider == InitLedger /\ [][NextProvider]_vars

\* the ledger's entry points with the process dying and starting again
SpecCrash == InitCrash /\ [][NextCrash]_vars

\* the working memory's operations called in any order
SpecWM == InitMemory /\ [][NextWM]_vars

\* the knowledge graph's operations called in any order
SpecKG == InitGraph /\ [][NextKG]_vars

\* the procedural memory's operations called in any order
SpecPM == InitGraph /\ [][NextPM]_vars

\* fused searches over stores that return results, return nothing, or fail
SpecHS == InitGraph /\ [][NextHS]_vars
SpecOrch == InitService /\ [][NextOrch]_vars

\* conferences of the teams over the registered agents
SpecConf == InitConference /\ [][NextConf]_vars

\* the background tasks started and stopped at any time
SpecBg == InitGraph /\ [][NextBg]_vars

\* a request arriving at any time of the day, before or after the daily reset
SpecDay == InitService /\ [][NextDay]_vars

\* requests of the entry points running side by side
SpecCalls == InitSessions /\ [][NextCalls]_vars

\* the consensus rule applied to a list of contributions
SpecConsensus == InitConsensus /\ [][NextConsensus]_vars

\* is and is_not relations added in any order, and the search for contradictions
SpecContra == InitGraph /\ [][NextContra]_vars

\* a knowledge graph that is built and then decays; decay is called again and
\* again by the consolidation loop
SpecDecay ==
    InitGraph /\ [][NextDecay]_vars /\ WF_vars(\E rate \in KgDecayRates : decay(rate))

\* ------------------------------------------------------ the claims: ledger

\* the daily reset instants in reach of the clock
Boundaries == {k * HoursPerDay + resetHour : k \in -1..(MaxNow \div HoursPerDay + 1)}

\* a reset instant lies after `since` and not after t
BoundaryPassed(since, t) == \E b \in Boundaries : since < b /\ b <= t

\* the reset cycle t lies in: the number of reset instants up to t
CycleOf(t) == Cardinality({b \in Boundaries : b <= t})

\* this step is a call of op
Step(op) == last'.seq # last.seq /\ last'.op = op

\* the ledger an entry point works on once its reset check has run
AfterResetCheck ==
    IF BoundaryPassed(ledger.last_reset, now)
    THEN [tokens_used |-> 0, curiosity_ops_used |-> 0, request_count |-> 0,
          last_reset |-> now, history |-> 0]
    ELSE ledger

\* C1: with hardStop enabled, tokensUsed <= dailyLimit in every state that
\* completion requests and curiosity operations can reach from tokensUsed = 0.
C1_UsedWithinLimit == hardStop => ledger.tokens_used <= DailyLimit

\* C2: two concurrent completion requests are never both admitted against the
\* same tokensUsed value when the check of the second, had it seen the
\* consumption of the first, would have denied it.
C2_NoAdmissionRace ==
    hardStop =>
        \A p \in Procs, q \in Procs :
            (p # q /\ pc[p] = "done" /\ pc[q] = "awaiting" /\ call[p].seen = call[q].seen)
                => call[q].seen + call[p].consumed + call[q].prompt + call[q].mt <= DailyLimit

\* C3: request_tokens(t) with t <= dailyLimit returns true exactly when hardStop
\* is off or tokensUsed + t <= dailyLimit, tokensUsed being the counter the
\* check reads: the ledger's counter, or 0 when the call's own reset check
\* found a reset instant passed.
C3_RequestTokensRule ==
    [][(Step("request_tokens") /\ last'.arg <= DailyLimit)
          => (last'.ret <=> (~hardStop \/ AfterResetCheck.tokens_used + last'.arg <= DailyLimit))]_vars

\* a request near the limit was denied under hardStop
C3_Witness ==
    /\ last.op = "request_tokens" /\ hardStop /\ ~last.ret
    /\ last.arg <= DailyLimit
    /\ 0 < ledger.tokens_used /\ ledger.tokens_used < DailyLimit

\* C4: consume_tokens(t) can always be called, adds exactly t to tokensUsed and
\* one to requestCount, and leaves tokensRemaining = max(0, dailyLimit - tokensUsed).
C4_ConsumeExact ==
    /\ [](\A t \in 1..(PerRequestMax + 1) :
            (alive /\ ledger.tokens_used + t <= MaxTokens) => ENABLED ConsumeTokensCall(t))
    /\ [][Step("consume_tokens")
            => /\ last'.ret
               /\ ledger'.tokens_used = ledger.tokens_used + last'.arg
               /\ ledger'.request_count = ledger.request_count + 1
               /\ TokensRemaining(ledger') =
                     (IF ledger.tokens_used + last'.arg >= DailyLimit THEN 0
                      ELSE DailyLimit - (ledger.tokens_used + last'.arg))]_vars

\* tokens were consumed beyond the limit although hardStop is on
C4_Witness ==
    /\ last.op = "consume_tokens" /\ hardStop
    /\ ledger.tokens_used > DailyLimit /\ TokensRemaining(ledger) = 0
    /\ ledger.request_count > 1

\* C5: no two resets fall into the same reset cycle, and a reset check made
\* when no reset instant has passed since lastReset changes nothing.
C5_ResetOncePerCycle ==
    /\ [](Len(resetLog) = 2 => CycleOf(resetLog[1]) < CycleOf(resetLog[2]))
    /\ [][((Step("check_and_maybe_reset") \/ Step("request_tokens"))
             /\ ~BoundaryPassed(ledger.last_reset, now))
            => (ledger' = ledger /\ resetLog' = resetLog)]_vars

\* two resets have happened, tokens were consumed after the second one, and a
\* further check left them alone
C5_Witness ==
    /\ Len(resetLog) = 2
    /\ last.op = "check_and_maybe_reset" /\ ~last.ret
    /\ ledger.last_reset = resetLog[2]
    /\ ledger.tokens_used > 0

\* C6: when the process dies inside a save, the state file holds the complete
\* state saved before or the complete state being saved, never part of one,
\* and a restart loads exactly the counters of the file (or starts from zero
\* when there is no file or its reset cycle is over).
C6_AtomicSave ==
    /\ [](stateFile.exists => Len(stateFile.text) = 4)
    /\ [][Step("crash")
            => \/ stateFile' = stateFile
               \/ \E L \in PendingSaves : stateFile' = [exists |-> TRUE, text |-> Dump(L)]]_vars
    /\ [][Step("restart")
            => IF stateFile.exists /\ Len(stateFile.text) = 4
                  /\ ~BoundaryPassed(FromIsoFormat(stateFile.text[4]), now)
               THEN /\ ledger'.tokens_used = stateFile.text[1]
                    /\ ledger'.curiosity_ops_used = stateFile.text[2]
                    /\ ledger'.request_count = stateFile.text[3]
                    /\ IsoFormat(ledger'.last_reset) = stateFile.text[4]
               ELSE /\ ledger'.tokens_used = 0
                    /\ ledger'.curiosity_ops_used = 0
                    /\ ledger'.request_count = 0
                    /\ ledger'.last_reset = now]_vars

\* the process died while the temporary file was half written and came back
\* with the counters of the state saved before
C6_Witness ==
    /\ last.op = "restart"
    /\ tmpFile.exists /\ Len(tmpFile.text) \in 1..3
    /\ stateFile.exists /\ stateFile.text[1] > 0
    /\ ledger.tokens_used = stateFile.text[1]

\* C7: request_curiosity_op(e) grants exactly when the operations quota is not
\* used up, e <= curiosityPerOpTokens and the token admission rule allows e;
\* a grant adds one to curiosityOpsUsed and touches nothing else, a denial
\* leaves the ledger as the reset check left it; curiosityOpsUsed never
\* exceeds curiosityDailyOps.
C7_CuriosityQuota ==
    /\ [](ledger.curiosity_ops_used <= CuriosityDailyOps)
    /\ [][Step("request_curiosity_op")
            => LET c == AfterResetCheck
                   grant == /\ c.curiosity_ops_used < CuriosityDailyOps
                            /\ last'.arg <= CuriosityPerOpTokens
                            /\ (~hardStop \/ c.tokens_used + last'.arg <= DailyLimit)
               IN /\ last'.ret <=> grant
                  /\ grant => ledger' = [c EXCEPT !.curiosity_ops_used = @ + 1]
                  /\ ~grant => ledger' = c]_vars

\* an operation was denied only because the quota of the cycle is used up
C7_Witness ==
    /\ last.op = "request_curiosity_op" /\ ~last.ret
    /\ ledger.curiosity_ops_used = CuriosityDailyOps
    /\ last.arg <= CuriosityPerOpTokens
    /\ ledger.tokens_used + last.arg <= DailyLimit

\* ---------------------------------------------- the claims: working memory

WmStep(op) == wmLast'.seq # wmLast.seq /\ wmLast'.op = op

KgStep(op) == kgLast'.seq # kgLast.seq /\ kgLast'.op = op

\* a comes before b in the list
Before(concepts, a, b) ==
    \E i \in 1..Len(concepts), j \in 1..Len(concepts) :
        i < j /\ concepts[i] = a /\ concepts[j] = b

\* C10: hebbian_update never lowers the weight of an existing edge a->b whose
\* ends are listed a before b, raises it when it was below 10.0, and leaves it
\* at most 10.0, whatever weight add_relation gave the edge.
C10_HebbianMonotone ==
    [][KgStep("hebbian_update") =>
         \A e \in DOMAIN kg.graph_edges :
             Before(kgLast'.arg, e[1], e[2]) =>
                 /\ e \in DOMAIN kg'.graph_edges
                 /\ kg'.graph_edges[e].weight >= kg.graph_edges[e].weight
                 /\ kg.graph_edges[e].weight < WeightCap
                        => kg'.graph_edges[e].weight > kg.graph_edges[e].weight
                 /\ kg'.graph_edges[e].weight <= WeightCap]_vars

\* C11: every decay lowers the activation of every node it keeps; a node that
\* is in the graph is eventually removed when decay is called again and again;
\* and right after a decay removed a node, no edge of the graph and no row of
\* kg_edges has that node as source or target.
C11_DecayRemoves ==
    /\ [][KgStep("decay") =>
            \A n \in DOMAIN kg.graph_nodes :
                IF n \in DOMAIN kg'.graph_nodes
                THEN ActivationOf(kg'.graph_nodes[n]) < ActivationOf(kg.graph_nodes[n])
                ELSE /\ \A e \in DOMAIN kg'.graph_edges : e[1] # n /\ e[2] # n
                     /\ \A r \in kg'.db_edges : r.source # n /\ r.target # n]_vars
    /\ \A n \in KgIds : (n \in DOMAIN kg.graph_nodes) ~> (n \notin DOMAIN kg.graph_nodes)

\* a decay removed one end of an edge and kept the other end
C11_Witness ==
    /\ kgLast.op = "decay"
    /\ \E e \in kgLast.cut : e[1] \in kgLast.removed /\ e[2] \in DOMAIN kg.graph_nodes

\* the graph in memory and a graph loaded from the tables are the same: the
\* same nodes with the same activations, the same edges with the same data
SameGraph(G, loaded) ==
    /\ DOMAIN loaded.graph_nodes = DOMAIN G.graph_nodes
    /\ \A n \in DOMAIN G.graph_nodes :
           ActivationOf(loaded.graph_nodes[n]) = ActivationOf(G.graph_nodes[n])
    /\ loaded.graph_edges = G.graph_edges

\* C12: after every call, whatever graph a reload of the tables builds is the
\* graph held in memory.
C12_StoreInSync == \A loaded \in LoadGraph(kg) : SameGraph(kg, loaded)

\* ------------------------------------------- the claims: procedural memory

PmStep(op) == pmLast'.seq # pmLast.seq /\ pmLast'.op = op

\* the characters of a query that its normal form keeps: every character that
\* is no blank, and a blank that follows a word and has a word after it
KeptIdx(q) ==
    {i \in 1..Len(q) :
        q[i] # " " \/ (i > 1 /\ q[i - 1] # " " /\ \E j \in (i + 1)..Len(q) : q[j] # " ")}

\* the normal form of a query: lower-cased, runs of blanks collapsed, no
\* blanks at the ends
Collapsed(q) ==
    LET K == KeptIdx(q)
        idx(k) == CHOOSE i \in K : Cardinality({j \in K : j < i}) = k - 1
    IN [k \in 1..Cardinality(K) |-> Lower(q[idx(k)])]

\* the table holds a row for the normal form of q
Held(P, q) == \E i \in 1..Len(P) : Collapsed(P[i].query_normalized) = Collapsed(q)

\* C13 as stated: a lookup that follows a store of the same normal form (the
\* row of that form having a confidence that lookups accept) returns the
\* response just stored, and a lookup of a normal form the table does not hold
\* returns null.
C13_LookupReturnsStored ==
    /\ [][(pmLast.op = "store" /\ PmStep("lookup")
             /\ Collapsed(pmLast'.query) = Collapsed(pmLast.query)
             /\ \E i \in 1..Len(procedures) :
                    procedures[i].id = pmLast.ret /\ procedures[i].confidence >= LookupFloor)
            => pmLast'.ret = pmLast.response]_vars
    /\ [][(PmStep("lookup") /\ ~Held(procedures, pmLast'.query)) => pmLast'.ret = Null]_vars

\* C13, amended: store(q, r, c) inserts a row with r and c when the table holds
\* no row for the normal form of q, and otherwise keeps the response of the row
\* it holds; a lookup that follows a store of the same normal form returns the
\* response of that row when its confidence is at least 0.5 and null
\* otherwise; a lookup of a normal form the table does not hold returns null.
C13_LookupReturnsHeld ==
    /\ [][PmStep("store") =>
            \E i \in 1..Len(procedures') :
                /\ procedures'[i].id = pmLast'.ret
                /\ Collapsed(procedures'[i].query_normalized) = Collapsed(pmLast'.query)
                /\ IF Held(procedures, pmLast'.query)
                   THEN \E j \in 1..Len(procedures) :
                            /\ procedures[j].id = pmLast'.ret
                            /\ procedures'[i].response = procedures[j].response
                   ELSE /\ procedures'[i].response = pmLast'.response
                        /\ procedures'[i].confidence = pmLast'.confidence]_vars
    /\ [][(pmLast.op = "store" /\ PmStep("lookup")
             /\ Collapsed(pmLast'.query) = Collapsed(pmLast.query))
            => \E i \in 1..Len(procedures) :
                   /\ procedures[i].id = pmLast.ret
                   /\ pmLast'.ret = IF procedures[i].confidence >= LookupFloor
                                    THEN procedures[i].response ELSE Null]_vars
    /\ [][(PmStep("lookup") /\ ~Held(procedures, pmLast'.query)) => pmLast'.ret = Null]_vars

\* a query was stored twice and then looked up in a spelling that is not its
\* normal form, and the lookup returned a response
C13_Witness ==
    /\ pmLast.op = "lookup" /\ pmLast.ret # Null
    /\ pmLast.query # NormalizeQuery(pmLast.query)
    /\ \E i \in 1..Len(procedures) :
           /\ procedures[i].query_hash = HashQuery(pmLast.query)
           /\ procedures[i].success_count = 3

\* ----------------------------------------------- the claims: hybrid search

\* the results of the stores that did not fail in the last search
Offered ==
    LET o == hsLast.outcomes
        of(layer, source, fixed) ==
            IF o[layer].ok
            THEN {Appended(o[layer].items, source, fixed)[i] : i \in 1..Len(o[layer].items)}
            ELSE {}
    IN of("working", "working_memory", TRUE) \cup of("episodic", "episodic", FALSE)
       \cup of("fts", "fts", FALSE) \cup of("vector", "vector", FALSE)
       \cup of("kg", "knowledge_graph", TRUE)

\* C14: whichever stores fail, search returns normally; its result holds at
\* most top_k results, all of them results of stores that did not fail, in
\* descending rank and with different prefixes, and a result of such a store
\* is left out only for a result of the same prefix ranked no lower, or
\* because top_k results ranked no lower were returned.
C14_SearchTotal ==
    LET out == hsLast.ret.results
        n == Len(out)
    IN hsLast.top_k > 0 =>
        /\ ~hsLast.ret.raised
        /\ n <= hsLast.top_k
        /\ \A i \in 1..n : out[i] \in Offered
        /\ \A i \in 1..n, j \in 1..n :
               i < j => /\ TemporalScore(out[i]) >= TemporalScore(out[j])
                        /\ Prefix(out[i]) # Prefix(out[j])
        /\ \A r \in Offered :
               \/ \E i \in 1..n : /\ Prefix(out[i]) = Prefix(r)
                                  /\ TemporalScore(out[i]) >= TemporalScore(r)
               \/ /\ n = hsLast.top_k
                  /\ \A i \in 1..n : TemporalScore(out[i]) >= TemporalScore(r)

\* two stores failed, the others returned results that share a prefix, and the
\* search returned two results and left one out
C14_Witness ==
    /\ ~hsLast.outcomes.episodic.ok /\ ~hsLast.outcomes.kg.ok
    /\ hsLast.outcomes.fts.items = <<ItemB, ItemC>>
    /\ hsLast.outcomes.vector.items = <<ItemA>>
    /\ hsLast.top_k = 2 /\ Len(hsLast.ret.results) = 2
    /\ Cardinality(Offered) > 2

\* ----------------------------------------------------- claims: orchestrator

\* what the request has called so far
Evs == {trace[i].ev : i \in 1..Len(trace)}

\* the models of the provider calls the request has made so far, in order
RECURSIVE AttemptsOf(_)
AttemptsOf(events) ==
    IF events = <<>> THEN <<>> ELSE Head(events).attempts \o AttemptsOf(Tail(events))

\* the agent has enough of its keywords in a text of so many words
Triggered(hits, words, i) == hits[i] >= 2 \/ (hits[i] = 1 /\ words <= 5)

\* the route the order BudgetCheck, SkillMatch, SpecialistMatch,
\* DirectCompletion gives a request
FirstRoute(skillMatch, hits, words) ==
    IF IsExhausted(ledger) THEN "done"
    ELSE IF skillLoader /\ skillMatch THEN "skill"
    ELSE IF \E i \in 1..Len(AgentNames) : Triggered(hits, words, i) THEN "specialist"
    ELSE "chat"

\* C15: every request takes the first route, in the order BudgetCheck,
\* SkillMatch, SpecialistMatch, DirectCompletion, whose condition holds; a
\* request refused for the budget gets the fixed message and calls no skill,
\* no specialist and no provider; a request a skill matches starts no
\* specialist and no direct completion.
C15_FirstRouteWins ==
    /\ [][\A skillMatch \in BOOLEAN, hits \in [1..Len(AgentNames) -> 0..TriggersNeeded],
             words \in {ShortMessage, ShortMessage + 1}, raises \in BOOLEAN :
               process(skillMatch, hits, words, raises)
                   => /\ oPc' = FirstRoute(skillMatch, hits, words)
                      /\ oPc' = "specialist"
                             => \E i \in 1..Len(AgentNames) :
                                    /\ specialist' = AgentNames[i]
                                    /\ Triggered(hits, words, i)
                                    /\ \A j \in 1..Len(AgentNames) :
                                           Triggered(hits, words, j) => hits[j] <= hits[i]]_vars
    /\ [](("budget_exhausted" \in Evs)
              => /\ trace = <<Did("budget_exhausted")>>
                 /\ answer = BudgetMessage
                 /\ oPc = "done"
                 /\ AttemptsOf(trace) = <<>>)
    /\ [](("skill_loader.execute" \in Evs)
              => /\ Evs \cap {"_specialist_path", "agent.process", "_chat_path", "complete",
                              "complete_chat", "simple_call", "budget_exhausted"} = {}
                 /\ AttemptsOf(trace) = <<>>)
    /\ [](("_specialist_path" \in Evs \/ "_chat_path" \in Evs)
              => Evs \cap {"skill_loader.execute", "budget_exhausted"} = {})
    /\ [][oPc = "specialist" => oPc' \in {"specialist", "post"}]_vars

\* a request was refused for the budget, with a skill loader at hand, and
\* nothing of it reached the session
C15_Witness ==
    /\ "budget_exhausted" \in Evs
    /\ skillLoader
    /\ session = <<>>
    /\ ledger.tokens_used >= DailyLimit


\* the request is through its path: the final answer is out
Answered == oPc \in {"post", "done"}

\* the request went through the specialist or the direct completion
NonSkillPath == "_specialist_path" \in Evs \/ "_chat_path" \in Evs

\* C16 as stated: after any non-skill path, also a direct completion reached
\* as fallback, a result whose confidence is below 0.6 has been verified when
\* the request completes.
C16_LowConfidenceVerified ==
    (Answered /\ NonSkillPath /\ result.confidence < 60) => "verifier.verify" \in Evs

\* C16 as amended: the answer of a specialist agent whose confidence is below
\* 0.6 has been verified, after the agent answered, when the request
\* completes; nothing else is verified, in particular no direct completion.
C16_AgentAnswerVerified ==
    Answered =>
        /\ (result.source_agent = "agent" /\ result.confidence < 60)
               <=> "verifier.verify" \in Evs
        /\ \A i \in 1..Len(trace) :
               trace[i].ev = "verifier.verify"
                   => /\ \E j \in 1..(i - 1) : trace[j] = Did("agent.process")
                      /\ "_chat_path" \notin Evs /\ "complete_chat" \notin Evs

\* an agent unsure of its answer was verified and the note was added
C16_Witness ==
    /\ oPc = "done"
    /\ result.source_agent = "agent"
    /\ result.confidence < 60
    /\ "verifier.verify" \in Evs
    /\ Len(result.content) > 1

\* C17 as stated: every path, the budget rejection too, ends with the answer
\* written to the session history and a background task started (here with a
\* memory facade at hand).
C17_EveryPathWritesBack ==
    (oPc = "done" /\ memory) => ("session.add_message" \in Evs /\ "create_task" \in Evs)

\* C17 as amended: with a memory facade at hand, the skill, specialist and
\* direct completion paths end with the write of the answer to the session
\* history, which may fail, and with the start of the task that records the
\* interaction, in this order; the budget rejection writes nothing and starts
\* no task.
C17_PathsWriteBack ==
    /\ []((oPc = "done" /\ memory /\ "budget_exhausted" \notin Evs)
              => /\ Len(trace) >= 2
                 /\ trace[Len(trace) - 1].ev = "session.add_message"
                 /\ trace[Len(trace)] = Did("create_task")
                 /\ trace[Len(trace) - 1].raised = "none"
                        => (session # <<>> /\ session[Len(session)] = "assistant"))
    /\ [][(oPc = "post" /\ oPc' = "done" /\ memory)
              => /\ tasks' = Append(tasks, result)
                 /\ result.content = answer]_vars
    /\ [][("budget_exhausted" \in Evs' /\ trace' # trace)
              => (session' = session /\ tasks' = tasks)]_vars
    /\ []((oPc = "done" /\ ~memory) => (session = <<>> /\ tasks = <<>>))

\* a request went through a path, its answer is in the session and its task waits
C17_Witness ==
    /\ oPc = "done"
    /\ memory
    /\ session = <<"user", "assistant">>
    /\ "create_task" \in Evs
    /\ tasks = <<result>>

\* the critique answers verify cannot turn into a confidence: no JSON, JSON
\* that is no object, a confidence that is no number, a fence without a line
Unparsable ==
    { <<"not json at all">>, <<"[0.3, fix]">>, <<"{confidence: high, suggestion: fix}">>,
      <<Fence, "{confidence: 0.3, suggestion: fix}", Fence>> }

\* C18: when the critique call raises or its answer cannot be parsed, verify
\* returns passed = true with an empty suggestion, and the answer the
\* orchestrator returns is the agent's, unmodified.
C18_VerificationNeverBlocks ==
    /\ [](\A q \in Critiques :
              /\ VerifyResponse(TRUE, q).passed /\ VerifyResponse(TRUE, q).suggestion = ""
              /\ q \in Unparsable
                     => (VerifyResponse(FALSE, q).passed /\ VerifyResponse(FALSE, q).suggestion = ""))
    /\ [](\A i \in 1..Len(trace) :
              (/\ Answered
               /\ trace[i].ev = "simple_call"
               /\ trace[i].raised # "none" \/ trace[i].response \in Unparsable)
                  => (result.content = <<"agent answer">> /\ answer = <<"agent answer">>))

\* the critique call of a verification raised and the agent's answer went out as it was
C18_Witness ==
    /\ oPc = "done"
    /\ "verifier.verify" \in Evs
    /\ \E i \in 1..Len(trace) : trace[i].ev = "simple_call" /\ trace[i].raised = "Exception"
    /\ answer = <<"agent answer">>

\* the calls of the provider's entry points
ProviderCalls == {"complete", "complete_chat", "simple_call"}

\* C19 as stated: once a call of the provider is refused admission inside a
\* specialist or a direct completion, the answer is the fixed budget message
\* and the request calls the provider no more.
C19_BudgetExhaustedTerminal ==
    Answered =>
        \A i \in 1..Len(trace) :
            (trace[i].ev \in {"complete", "complete_chat"} /\ trace[i].raised = "BudgetExhausted")
                => /\ answer = BudgetMessage
                   /\ \A j \in (i + 1)..Len(trace) : trace[j].ev \notin ProviderCalls

\* the first provider call of the call failed
FirstFailed(e) == e.attempts # <<>> /\ (e.raised # "none" \/ Len(e.attempts) > 1)

\* the fallback model needs an API key that is not set
NoKey(model_id) ==
    \/ model_id[1] = "groq" /\ "GROQ_API_KEY" \notin environ
    \/ model_id[1] = "openai" /\ "OPENAI_API_KEY" \notin environ

\* C20 as stated: a call whose first provider call fails makes exactly one
\* further attempt, with the fallback model, and no call makes more than two.
C20_RetriedExactlyOnce ==
    \A i \in 1..Len(trace) :
        /\ Len(trace[i].attempts) <= 2
        /\ FirstFailed(trace[i])
               => /\ Len(trace[i].attempts) = 2
                  /\ trace[i].attempts[2] = GetFallback(router).model_id

\* C20 as amended: a call whose first provider call fails makes one further
\* attempt, with the fallback model, exactly when the failed model is not the
\* fallback model, the key the fallback needs is set and the budget admits
\* the retry; otherwise it raises without a further attempt; no call makes
\* more than two attempts.
C20_RetriedAtMostOnce ==
    \A i \in 1..Len(trace) :
        LET e == trace[i]
            fb == GetFallback(router).model_id
        IN /\ Len(e.attempts) <= 2
           /\ Len(e.attempts) = 2 => (e.attempts[2] = fb /\ e.attempts[1] # fb)
           /\ FirstFailed(e)
                  => IF e.attempts[1] = fb
                     THEN Len(e.attempts) = 1 /\ e.raised = "Exception"
                     ELSE IF NoKey(fb)
                          THEN Len(e.attempts) = 1 /\ e.raised = "RuntimeError"
                          ELSE \/ Len(e.attempts) = 2 /\ e.raised \in {"none", "Exception"}
                               \/ Len(e.attempts) = 1 /\ e.raised = "BudgetExhausted"

\* a call failed twice, on its model and on the fallback, and raised
C20_Witness ==
    \E i \in 1..Len(trace) :
        /\ trace[i].ev \in {"complete", "complete_chat"}
        /\ Len(trace[i].attempts) = 2
        /\ trace[i].raised = "Exception"

\* -------------------------------------------------- the claims: conference

\* C21: a conference with at least one participant runs rounds numbered 1, 2,
\* ... in order, at most max_rounds of them; consensus is not evaluated in
\* round 1; a round that reached consensus is the last round of the result and
\* no round is started after it.
C21_RoundsStopAtConsensus ==
    participants # <<>> =>
        /\ Len(rounds) <= max_rounds
        /\ \A i \in 1..Len(rounds) : rounds[i].round_number = i
        /\ cPc = "gather" => round_num = Len(rounds) + 1
        /\ 1 \notin checked
        /\ \A i \in 1..Len(rounds) :
               rounds[i].consensus_reached => i = Len(rounds) /\ i > 1 /\ cPc = "done"

\* everybody agreed in round 1 and again in round 2, and the conference ended
\* there although a third round was allowed
C21_Witness ==
    /\ cPc = "done"
    /\ max_rounds = 3
    /\ Len(rounds) = 2
    /\ Len(participants) = 2
    /\ \A i \in 1..2 : rounds[1].contributions[i].content = <<"I", "agree">>
    /\ ~rounds[1].consensus_reached
    /\ rounds[2].consensus_reached

\* a contribution as the rule reads it
Counted(c) == ~(c.confidence < 30)
Says(keywords, c) ==
    \E k \in keywords, i \in 1..Len(c.content) :
        /\ i + Len(k) - 1 <= Len(c.content)
        /\ \A j \in 1..Len(k) : LowerWord(c.content[i + j - 1]) = k[j]
Remaining(cs) == {i \in 1..Len(cs) : Counted(cs[i])}
Agreeing(cs) == {i \in Remaining(cs) : Says(AGREE, cs[i])}
Blocked(cs) == \E i \in Remaining(cs) : Says(DISAGREE, cs[i])

\* C22 as stated: the decision is false when a contribution that is not ignored
\* holds a disagreement keyword, and otherwise true exactly when at least 60% of
\* the contributions that are not ignored hold an agreement keyword.
C22_ShareOfRemaining ==
    consensus # NotCalled =>
        consensus[1] =
            (~Blocked(contributions)
                /\ Cardinality(Agreeing(contributions)) * 100
                       >= Cardinality(Remaining(contributions)) * 60)

\* C22: contributions with confidence below 0.3 are ignored; the decision is
\* false when a remaining contribution holds a disagreement keyword, and
\* otherwise true exactly when the list is not empty and the remaining
\* contributions holding an agreement keyword are at least 60% of all the
\* contributions of the round, the ignored ones included.
C22_ShareOfAll ==
    consensus # NotCalled =>
        consensus[1] =
            (/\ contributions # <<>>
             /\ ~Blocked(contributions)
             /\ Cardinality(Agreeing(contributions)) * 100 >= Len(contributions) * 60)

\* three participants, one disagrees and the two others agree: no consensus
C22_Witness ==
    /\ consensus = <<FALSE>>
    /\ Len(contributions) = 3
    /\ Remaining(contributions) = 1..3
    /\ Cardinality(Agreeing(contributions) \ {i \in 1..3 : Says(DISAGREE, contributions[i])}) = 2
    /\ Blocked(contributions)

\* C23: a round's contributions are added once every participant has finished
\* or timed out, one per participant in team order; a participant whose call
\* returned contributes what it returned, one that timed out or raised
\* contributes a placeholder with confidence 0, and the conference goes on to
\* the next round unless this was the last round or consensus was reached.
C23_JoinKeepsEveryone ==
    [][rounds' # rounds =>
          /\ \A i \in 1..Len(participants) : finished[i] # Pending
          /\ Len(rounds') = Len(rounds) + 1
          /\ LET r == rounds'[Len(rounds')]
             IN /\ Len(r.contributions) = Len(participants)
                /\ \A i \in 1..Len(participants) :
                       /\ r.contributions[i].agent = participants[i]
                       /\ IF finished[i].kind = "returns"
                          THEN /\ r.contributions[i].content = finished[i].outcome.content
                               /\ r.contributions[i].confidence = finished[i].outcome.confidence
                          ELSE r.contributions[i].confidence = 0
                /\ IF r.consensus_reached \/ round_num = max_rounds
                   THEN cPc' = "done"
                   ELSE /\ cPc' = "gather"
                        /\ round_num' = round_num + 1
                        /\ \A i \in 1..Len(participants) : finished'[i] = Pending]_vars

\* the first participant timed out in round 1 and raised in round 2, the second
\* one answered in both, and a third round was run
C23_Witness ==
    /\ Len(rounds) = 3
    /\ Len(participants) = 2
    /\ rounds[1].contributions[1].content = TimeoutContent
    /\ rounds[1].contributions[1].confidence = 0
    /\ rounds[1].contributions[2].content = <<"maybe">>
    /\ rounds[2].contributions[1].content = FailedContent(<<"boom">>)
    /\ rounds[2].contributions[1].confidence = 0
    /\ rounds[2].contributions[2].content = <<"I", "agree">>
    /\ rounds[2].contributions[2].confidence > 0

\* ------------------------------------------- the claims: reset check first

\* C24: request_tokens, consume_tokens and request_curiosity_op run the daily
\* reset check before they read or update the counters: a call made after a
\* reset instant has passed works on the counters of the new cycle, so that
\* tokens consumed then are counted from zero and not added to the total of the
\* cycle that is over.
C24_ResetCheckFirst ==
    [][((Step("request_tokens") \/ Step("consume_tokens") \/ Step("request_curiosity_op"))
            /\ BoundaryPassed(ledger.last_reset, now))
        => /\ ledger'.last_reset = now
           /\ Step("consume_tokens") => ledger'.tokens_used = last'.arg
           /\ Step("request_tokens") => ledger'.tokens_used = 0]_vars

\* ------------------------------------------ the claims: knowledge graph, 2

\* the edges the graph holds between a and b, in either direction
Shared(G, a, b) == {<<a, b>>, <<b, a>>} \cap DOMAIN G.graph_edges

\* the edge was strengthened once by the step
Strengthened(e) ==
    /\ e \in DOMAIN kg'.graph_edges
    /\ kg'.graph_edges[e].weight = Min(WeightCap, kg.graph_edges[e].weight + LearningRate)
    /\ kg'.graph_edges[e].co_activations = kg.graph_edges[e].co_activations + 1

\* C25: hebbian_update treats pairs as unordered. For a list that names each
\* concept once and every two listed concepts a, b: when the graph holds an edge
\* between them, in whichever direction, an edge between them is strengthened
\* (weight plus learning_rate, capped at 10, co-activation count plus one) and
\* no edge is added between them; an edge is added only when they share none
\* and both are known, and then it is a co_activated edge; a pair with an
\* unknown concept gets no edge.
C25_PairsUnordered ==
    [][KgStep("hebbian_update") =>
         \A i \in 1..Len(kgLast'.arg), j \in 1..Len(kgLast'.arg) :
             LET a == kgLast'.arg[i]
                 b == kgLast'.arg[j]
             IN (i < j /\ Len(kgLast'.arg) = 2 /\ a # b
                     /\ \A e \in Shared(kg, a, b) : kg.graph_edges[e].weight <= WeightCap)
                 => IF Shared(kg, a, b) # {}
                    THEN /\ \E e \in Shared(kg, a, b) : Strengthened(e)
                         /\ Shared(kg', a, b) = Shared(kg, a, b)
                    ELSE IF a \in DOMAIN kg.graph_nodes /\ b \in DOMAIN kg.graph_nodes
                    THEN /\ Shared(kg', a, b) # {}
                         /\ \A e \in Shared(kg', a, b) :
                                kg'.graph_edges[e].relation = "co_activated"
                    ELSE Shared(kg', a, b) = {}]_vars

\* node n has an outgoing edge with the relation
HasEdge(G, n, relation) ==
    \E e \in DOMAIN G.graph_edges : e[1] = n /\ G.graph_edges[e].relation = relation

\* C26: find_contradictions returns a triple naming node n for every node n
\* that has both an outgoing is edge and an outgoing is_not edge, whatever the
\* order the two edges were added in, and no triple for a node that lacks
\* either kind of edge.
C26_ContradictionsFound ==
    kgLast.op = "find_contradictions" =>
        \A n \in DOMAIN kg.graph_nodes :
            (\E t \in kgLast.found : t[1] = n)
                <=> (HasEdge(kg, n, "is") /\ HasEdge(kg, n, "is_not"))

\* ------------------------------------------------ the claims: one session

\* C27: at any time at most one orchestrator call is in flight for a session
\* id, whichever entry points the calls came through, so that in the messages
\* of a session every user message is followed by the answer of its own call
\* before the next user message.
C27_OneCallPerSession ==
    /\ \A c \in 1..Len(calls), d \in 1..Len(calls) :
           (c # d /\ InFlight(c) /\ InFlight(d)) => calls[c].session_id # calls[d].session_id
    /\ \A sid \in SessionIds : \A i \in 1..(Len(sessLog[sid]) - 1) :
           sessLog[sid][i].role = "user" =>
               sessLog[sid][i + 1] = [role |-> "assistant", call |-> sessLog[sid][i].call]

\* ------------------------------------------- the claims: background tasks

\* C28: when stop() is called on the consolidation or the curiosity task while
\* an iteration is in progress, that iteration runs to completion before the
\* task ends; no iteration starts after stop() was called; and stop() returns
\* only when the task has ended.
C28_StopLetsIterationFinish ==
    \A t \in BgTasks :
        /\ bg[t].pc = "ended" => bg[t].completed = bg[t].started
        /\ bg[t].after_stop = 0
        /\ bg[t].stop = "returned" => bg[t].pc = "ended"

\* ---------------------------------------- the claims: exhaustion and reset

\* C29: budget exhaustion does not outlive the reset boundary: a request that
\* arrives after the daily reset instant has passed is not rejected with the
\* budget message, however much was used before that instant.
C29_ExhaustionEndsAtReset ==
    (oPc = "done" /\ trace = <<Did("budget_exhausted")>>)
        => ~BoundaryPassed(ledger.last_reset, now)

\* C30: a call of Orchestrator.process consumed to the end has yielded exactly
\* one final_answer event, whatever the route and whatever failed: never two,
\* and no call ends, or is left by an exception, without one
C30_OneFinalAnswer ==
    /\ finals <= 1
    /\ oPc \in {"post", "done", "raised"} => finals = 1

\* a request whose specialist raised, whose fallback completion failed too, and
\* whose session writes raised, is done with its one answer, the error message
C30_Witness ==
    /\ oPc = "done"
    /\ finals = 1
    /\ memory
    /\ session = <<>>
    /\ result.source_agent = "error"
    /\ \E i \in DOMAIN trace : trace[i] = Event("agent.process", <<>>, "Exception")
    /\ \E i \in DOMAIN trace : trace[i] = Event("memory.search", <<>>, "Exception")
====
